---- MODULE Spec2Model ----
(***************************************************************************)
(* Decision layer of the pipe-casting line controller.                     *)
(*                                                                         *)
(* Part 1: the Pipe-Flow FSM (logic/pipe_fsm.py) as driven by the          *)
(* processing loop of App.run (app.py).  One Tick is one iteration of the  *)
(* loop that reaches pipe_fsm.update: the detector's output is filtered by *)
(* the loop, then update() runs over it detection by detection, then the   *)
(* stale tracks are reclaimed.                                             *)
(*                                                                         *)
(* Abstractions.  A bounding box is represented by the set of named ROIs   *)
(* that contain its centroid (its "zone"): update() reads a box only       *)
(* through rois.contains(name, cx, cy).  The confidence sums, frames_seen, *)
(* frames_missing and last_seen_ts of PipeStats are left out: update()     *)
(* writes them and never reads them in a condition (frames_seen only       *)
(* guards the frames_missing accounting).  Optional values are None == <<>>*)
(* and Some(v) == <<v>>.                                                   *)
(***************************************************************************)
EXTENDS Integers, Sequences, FiniteSets, TLC

VARIABLES
  frame_idx,              \* App.run: index of the next frame to process
  ts,                     \* timestamp capture.read() gave for the last frame
  tids,                   \* the tracker ids the detector hands out in this run
  cfg,                    \* the thresholds the PipeFlowFSM was constructed with
  running,                \* FALSE once an exception has left the loop
  pipes,                  \* PipeFlowFSM.pipes: dict in insertion order
  seq,                    \* PipeFlowFSM.seq
  loadcell_armed,         \* PipeFlowFSM.loadcell_armed
  loadcell_empty_streak,  \* PipeFlowFSM.loadcell_empty_streak
  updated,                \* first component of update()'s return value
  events,                 \* second component of update()'s return value
  seen,                   \* history: what the detector reported on the last tick
  issued,                 \* history: every pipe_uid handed out, in order
  pulsed,                 \* history: pipe_uid of every plc.pulse(pulse_tag) call
  qualified,              \* history: uids seen N consecutive frames in the load-cell as caster
  retired,                \* history: uids whose record was reclaimed
  track,                  \* history: per live tracker id, what was observed of it
  event_log,              \* history: every event update() has returned, in order
  calm,                   \* history: ticks without a tracked pipe in the load-cell since the last pulse
  gate_cfg,               \* what the GateFSM and its source were constructed with
  gates,                  \* GateFSM.gates
  gate_tick,              \* number of GateFSM.update calls so far
  gate_events,            \* the events the last GateFSM.update returned
  gate_in,                \* history: what the last GateFSM.update was given
  gate_pos,               \* history: what the source answered for each gate
  gate_pulsed,            \* history: the tags the last GateFSM.update pulsed
  gate_run,               \* history: per gate, the current run of "open" answers
  gate_hist,              \* history: per gate, the answers since the event before the last
  plc_mode,               \* the PLCClient under check: "mock" or "modbus"
  plc_state,              \* per tag: MockPLCClient.state, or the coil on the controller
  plc_pc,                 \* where the caller of pulse() is
  plc_tag,                \* the tag of the pulse in progress or last finished
  plc_writes,             \* history: the writes that pulse made, in order
  plc_result,             \* history: how the last pulse finished
  plc_pulses,             \* number of pulse() calls so far
  plc_read,               \* history: what the last read_bool returned
  app_cfg,                \* App.cfg and the environment App.run starts in
  app_pc,                 \* where App.run is
  app_plc,                \* the client create_plc returned
  app_error,              \* the exception that left App.run
  app_gates,              \* gate_fsm.gates
  app_pulses,             \* history: the tags pulsed during the run
  app_reads,              \* number of capture.read() calls so far
  app_raw,                \* history: what tracker.infer returned for the last frame
  rec_cfg,                \* SegmentedVideoRecorder.cfg
  rec_main,               \* where the decision thread is in the recorder's API
  rec_item,               \* the frame a blocked push is holding
  rec_q,                  \* SegmentedVideoRecorder._q
  rec_stop,               \* SegmentedVideoRecorder._stop
  rec_thread,             \* SegmentedVideoRecorder._thread: "none", "alive", "done"
  rec_wpc,                \* where the worker is in _run
  rec_frame,              \* the frame the worker dequeued
  rec_writer,             \* SegmentedVideoRecorder._writer (an index into rec_files)
  rec_frame_size,         \* SegmentedVideoRecorder._frame_size
  rec_segment_end_ts,     \* SegmentedVideoRecorder._segment_end_ts
  rec_gap_until_ts,       \* SegmentedVideoRecorder._gap_until_ts
  rec_now,                \* time.time(), in seconds
  rec_files,              \* history: the segments opened, with the frames written
  rec_pushed,             \* history: number of push() calls
  rec_dropped,            \* history: frames push() discarded
  rec_touch,              \* history: worker fields the decision thread used while the worker was alive
  fin_pc,                 \* where App.run is in its finally block
  fin_released,           \* history: the resources whose release the finally block has run
  iou_a,                  \* first box given to _iou
  iou_b,                  \* second box given to _iou
  iou_ab,                 \* _iou(a, b) once computed
  iou_ba                  \* _iou(b, a) once computed

pipeVars == <<frame_idx, ts, tids, cfg, running, pipes, seq, loadcell_armed,
              loadcell_empty_streak, updated, events, seen, issued, pulsed,
              qualified, retired, track,
              event_log, calm>>

gateVars == <<gate_cfg, gates, gate_tick, gate_events, gate_in, gate_pos,
              gate_pulsed, gate_run, gate_hist>>

plcVars == <<plc_mode, plc_state, plc_pc, plc_tag, plc_writes, plc_result,
             plc_pulses, plc_read>>

appVars == <<app_cfg, app_pc, app_plc, app_error, app_gates, app_pulses, app_reads,
             app_raw>>

recVars == <<rec_cfg, rec_main, rec_item, rec_q, rec_stop, rec_thread, rec_wpc,
             rec_frame, rec_writer, rec_frame_size, rec_segment_end_ts,
             rec_gap_until_ts, rec_now, rec_files, rec_pushed, rec_dropped, rec_touch>>

finVars == <<fin_pc, fin_released>>

iouVars == <<iou_a, iou_b, iou_ab, iou_ba>>

vars == <<pipeVars, gateVars, plcVars, appVars, recVars, finVars, iouVars>>

----------------------------------------------------------------------------
\* Bounds of the model.

\* Index of the last frame processed in a run with one tracker id.
MaxFrameOne == 7

\* Index of the last frame processed in a run with two tracker ids.
MaxFrameTwo == 3

\* cfg.runtime.max_fps: frames per wall-clock second, so int(time.time()) is
\* the same for this many consecutive frames.
max_fps == 15

\* The runs checked: the tracker ids the detector hands out, and the
\* thresholds the PipeFlowFSM is constructed with (cfg.runtime.*, defaults
\* 2, 1, 2, 45 and 10).  The thresholds are scaled down so that a run reaches
\* confirmation, reclamation and re-arming within its frames.
Runs ==
  { [tids |-> {1},
     cfg |-> [origin_confirm_frames |-> 2, loadcell_enter_confirm_frames |-> 2,
              loadcell_exit_confirm_frames |-> 2, stale_track_frames |-> 3,
              rearm_empty_frames |-> 2]],
    [tids |-> {1, 2},
     cfg |-> [origin_confirm_frames |-> 1, loadcell_enter_confirm_frames |-> 1,
              loadcell_exit_confirm_frames |-> 1, stale_track_frames |-> 1,
              rearm_empty_frames |-> 1]] }

MaxFrame == IF Cardinality(tids) = 1 THEN MaxFrameOne ELSE MaxFrameTwo

origin_confirm_frames == cfg.origin_confirm_frames
loadcell_enter_confirm_frames == cfg.loadcell_enter_confirm_frames
loadcell_exit_confirm_frames == cfg.loadcell_exit_confirm_frames
stale_track_frames == cfg.stale_track_frames
rearm_empty_frames == cfg.rearm_empty_frames

----------------------------------------------------------------------------
\* Values.

None == <<>>
Some(v) == <<v>>

Max(a, b) == IF a >= b THEN a ELSE b
Min(a, b) == IF a <= b THEN a ELSE b

LOADCELL == "roi_loadcell"
CASTER5_ORIGIN == "roi_caster5_origin"
LEFT_ORIGIN == "roi_left_origin"
RIGHT_ORIGIN == "roi_right_origin"

\* Where a centroid can be: the set of ROIs that contain it.  The polygons
\* are drawn by the operator, so ROIs may overlap.
Zones == { {}, {CASTER5_ORIGIN}, {LEFT_ORIGIN}, {RIGHT_ORIGIN}, {LOADCELL} }

\* ROIManager.contains(name, cx, cy) for a centroid lying in zone z.
contains(name, z) == name \in z

TrackDet(cls, tid, z) == [cls_name |-> cls, track_id |-> tid, zone |-> z]

PipeStats(uid, tid) ==
  [pipe_uid |-> uid, tracker_id |-> tid, origin |-> None, state |-> "moving",
   t_origin |-> None, t_loadcell_enter |-> None, t_loadcell_exit |-> None,
   last_seen_frame |-> 0, counted |-> FALSE, origin_hits |-> 0,
   loadcell_hits |-> 0, loadcell_exit_misses |-> 0]

PipeEnteredLoadcellEvent(uid, tid, t) ==
  [kind |-> "PipeEnteredLoadcellEvent", pipe_uid |-> uid, tracker_id |-> tid, t_enter |-> t]

PipeExitedLoadcellEvent(uid, tid, t) ==
  [kind |-> "PipeExitedLoadcellEvent", pipe_uid |-> uid, tracker_id |-> tid, t_exit |-> t]

----------------------------------------------------------------------------
\* Sequence helpers.

Range(s) == {s[i] : i \in 1..Len(s)}

RECURSIVE SelectSeqBy(_, _)
\* The subsequence of s whose tracker_id is not in the set drop.
SelectSeqBy(s, drop) ==
  IF s = <<>> THEN <<>>
  ELSE IF Head(s).tracker_id \in drop THEN SelectSeqBy(Tail(s), drop)
       ELSE <<Head(s)>> \o SelectSeqBy(Tail(s), drop)

\* self.pipes as a dict: keys, lookup, assignment (an existing key keeps its
\* place, a new key goes last).
Keys(d) == {d[i].tracker_id : i \in 1..Len(d)}
Get(d, tid) == d[CHOOSE i \in 1..Len(d) : d[i].tracker_id = tid]
Put(d, tid, p) ==
  IF tid \in Keys(d)
    THEN [i \in 1..Len(d) |-> IF d[i].tracker_id = tid THEN p ELSE d[i]]
    ELSE Append(d, p)
----------------------------------------------------------------------------
\* The history of quiet ticks before any tick.
NoCalm == [run |-> 0, best |-> 0]

\* The parts of the program are checked one at a time: while one is running
\* the others have not been constructed and stay as they are.

PipeOff ==
  /\ frame_idx = 0 /\ ts = 0 /\ tids = {} /\ cfg = None /\ running = FALSE
  /\ pipes = <<>> /\ seq = 0 /\ loadcell_armed = TRUE /\ loadcell_empty_streak = 0
  /\ updated = <<>> /\ events = <<>> /\ seen = None /\ issued = <<>> /\ pulsed = <<>>
  /\ qualified = {} /\ retired = {} /\ track = <<>> /\ event_log = <<>> /\ calm = NoCalm

GateOff ==
  /\ gate_cfg = None /\ gates = <<>> /\ gate_tick = 0 /\ gate_events = <<>>
  /\ gate_in = None /\ gate_pos = <<>> /\ gate_pulsed = <<>> /\ gate_run = <<>>
  /\ gate_hist = <<>>

PlcOff ==
  /\ plc_mode = None /\ plc_state = <<>> /\ plc_pc = "idle" /\ plc_tag = None
  /\ plc_writes = <<>> /\ plc_result = None /\ plc_pulses = 0 /\ plc_read = None

AppOff ==
  /\ app_cfg = None /\ app_pc = "off" /\ app_plc = None /\ app_error = None
  /\ app_gates = <<>> /\ app_pulses = <<>> /\ app_reads = 0 /\ app_raw = None

RecOff ==
  /\ rec_cfg = None /\ rec_main = "off" /\ rec_item = None /\ rec_q = <<>>
  /\ rec_stop = FALSE /\ rec_thread = "none" /\ rec_wpc = "off" /\ rec_frame = None
  /\ rec_writer = None /\ rec_frame_size = None /\ rec_segment_end_ts = 0
  /\ rec_gap_until_ts = 0 /\ rec_now = 0 /\ rec_files = <<>> /\ rec_pushed = 0
  /\ rec_dropped = <<>> /\ rec_touch = {}

FinOff == fin_pc = "off" /\ fin_released = {}

IouOff == iou_a = <<>> /\ iou_b = <<>> /\ iou_ab = <<>> /\ iou_ba = <<>>

OthersOff(part) ==
  /\ IF part = "pipe" THEN TRUE ELSE PipeOff
  /\ IF part = "gate" THEN TRUE ELSE GateOff
  /\ IF part = "plc" THEN TRUE ELSE PlcOff
  /\ IF part = "app" THEN TRUE ELSE AppOff
  /\ IF part = "rec" THEN TRUE ELSE RecOff
  /\ IF part = "fin" THEN TRUE ELSE FinOff
  /\ IF part = "iou" THEN TRUE ELSE IouOff

OthersSame(part) ==
  /\ IF part = "pipe" THEN TRUE ELSE UNCHANGED pipeVars
  /\ IF part = "gate" THEN TRUE ELSE UNCHANGED gateVars
  /\ IF part = "plc" THEN TRUE ELSE UNCHANGED plcVars
  /\ IF part = "app" THEN TRUE ELSE UNCHANGED appVars
  /\ IF part = "rec" THEN TRUE ELSE UNCHANGED recVars
  /\ IF part = "fin" THEN TRUE ELSE UNCHANGED finVars
  /\ IF part = "iou" THEN TRUE ELSE UNCHANGED iouVars

----------------------------------------------------------------------------
\* PipeFlowFSM

\* int(time.time()) at a moment of frame timestamp t.
EpochSeconds(t) == t \div max_fps

\* Mutant: the uid is built from the wall-clock second alone.
new_pipe_uid_TimeOnly(n, t) == <<"caster5", EpochSeconds(t), 0>>

\* f"caster5_{int(time.time())}_{self.seq:06d}": the decimal fields are
\* separated by "_", so two uids are the same string iff both numbers agree.
new_pipe_uid(n, t) == <<"caster5", EpochSeconds(t), n>>

\* Mutant: the occupancy scan does not look at the class of the detection.
any_pipe_in_loadcell_AnyClass(dets) ==
  \E i \in 1..Len(dets) :
    /\ dets[i].track_id # None
    /\ contains(LOADCELL, dets[i].zone)

\* Lines 65-74: is some tracked pipe-class detection inside the load-cell ROI?
any_pipe_in_loadcell(dets) ==
  \E i \in 1..Len(dets) :
    /\ dets[i].cls_name = "pipe"
    /\ dets[i].track_id # None
    /\ contains(LOADCELL, dets[i].zone)

\* Lines 76-82: the empty streak and the re-arm, as [streak, armed].
Rearm(dets, streak, armed) ==
  IF any_pipe_in_loadcell(dets)
    THEN [streak |-> 0, armed |-> armed]
    ELSE [streak |-> streak + 1,
          armed |-> armed \/ (~armed /\ streak + 1 >= rearm_empty_frames)]

\* Mutant: the origin is assigned again on every frame, set or not.
AssignOrigin_NotSticky(p, z, t) ==
  IF contains(CASTER5_ORIGIN, z) THEN
    LET hits == p.origin_hits + 1 IN
    IF hits >= origin_confirm_frames
      THEN [p EXCEPT !.origin_hits = hits,
                     !.origin = Some("caster"),
                     !.t_origin = IF p.t_origin = None THEN Some(t) ELSE @]
      ELSE [p EXCEPT !.origin_hits = hits]
  ELSE IF contains(LEFT_ORIGIN, z) \/ contains(RIGHT_ORIGIN, z)
    THEN [p EXCEPT !.origin = Some("other")]
    ELSE p

\* Mutant: t_origin is latched on the first frame in the caster-origin ROI.
AssignOrigin_FirstHitTime(p, z, t) ==
  IF p.origin # None THEN p
  ELSE IF contains(CASTER5_ORIGIN, z) THEN
    LET hits == p.origin_hits + 1
        q == [p EXCEPT !.origin_hits = hits,
                       !.t_origin = IF p.t_origin = None THEN Some(t) ELSE @] IN
    IF hits >= origin_confirm_frames THEN [q EXCEPT !.origin = Some("caster")] ELSE q
  ELSE IF contains(LEFT_ORIGIN, z) \/ contains(RIGHT_ORIGIN, z)
    THEN [p EXCEPT !.origin = Some("other")]
    ELSE p

\* Lines 115-128: origin assignment.
AssignOrigin(p, z, t) ==
  IF p.origin # None THEN p
  ELSE IF contains(CASTER5_ORIGIN, z) THEN
    LET hits == p.origin_hits + 1 IN
    IF hits >= origin_confirm_frames
      THEN [p EXCEPT !.origin_hits = hits,
                     !.origin = Some("caster"),
                     !.t_origin = IF p.t_origin = None THEN Some(t) ELSE @]
      ELSE [p EXCEPT !.origin_hits = hits]
  ELSE IF contains(LEFT_ORIGIN, z) \/ contains(RIGHT_ORIGIN, z)
    THEN [p EXCEPT !.origin = Some("other")]
    ELSE p

\* Mutant: neither the entry timestamp nor the counted latch stops a pipe
\* from entering again.
LoadcellEnter_Retrigger(p, z, t, armed, pulse_ok) ==
  LET same == [p |-> p, pulse |-> FALSE, raised |-> FALSE, armed |-> armed, ev |-> <<>>] IN
  IF ~(p.origin = Some("caster")) THEN same
  ELSE IF ~contains(LOADCELL, z) THEN [same EXCEPT !.p = [p EXCEPT !.loadcell_hits = 0]]
  ELSE
    LET hits == p.loadcell_hits + 1
        p1 == [p EXCEPT !.loadcell_hits = hits] IN
    IF ~(armed /\ hits >= loadcell_enter_confirm_frames) THEN [same EXCEPT !.p = p1]
    ELSE
      LET p2 == [p1 EXCEPT !.t_loadcell_enter = Some(t), !.state = "on_loadcell"] IN
      IF FALSE THEN [same EXCEPT !.p = p2]
      ELSE IF ~pulse_ok THEN [same EXCEPT !.p = p2, !.pulse = TRUE, !.raised = TRUE]
      ELSE [p |-> [p2 EXCEPT !.counted = TRUE],
            pulse |-> TRUE, raised |-> FALSE, armed |-> FALSE,
            ev |-> <<PipeEnteredLoadcellEvent(p2.pipe_uid, p2.tracker_id, t)>>]

\* Mutant: the entry is confirmed one frame late (> instead of >=).
LoadcellEnter_LateConfirm(p, z, t, armed, pulse_ok) ==
  LET same == [p |-> p, pulse |-> FALSE, raised |-> FALSE, armed |-> armed, ev |-> <<>>] IN
  IF ~(p.origin = Some("caster") /\ p.t_loadcell_enter = None) THEN same
  ELSE IF ~contains(LOADCELL, z) THEN [same EXCEPT !.p = [p EXCEPT !.loadcell_hits = 0]]
  ELSE
    LET hits == p.loadcell_hits + 1
        p1 == [p EXCEPT !.loadcell_hits = hits] IN
    IF ~(armed /\ hits > loadcell_enter_confirm_frames) THEN [same EXCEPT !.p = p1]
    ELSE
      LET p2 == [p1 EXCEPT !.t_loadcell_enter = Some(t), !.state = "on_loadcell"] IN
      IF p2.counted THEN [same EXCEPT !.p = p2]
      ELSE IF ~pulse_ok THEN [same EXCEPT !.p = p2, !.pulse = TRUE, !.raised = TRUE]
      ELSE [p |-> [p2 EXCEPT !.counted = TRUE],
            pulse |-> TRUE, raised |-> FALSE, armed |-> FALSE,
            ev |-> <<PipeEnteredLoadcellEvent(p2.pipe_uid, p2.tracker_id, t)>>]

\* Mutant: the pulse is issued but the PipeEnteredLoadcellEvent is not appended.
LoadcellEnter_NoEvent(p, z, t, armed, pulse_ok) ==
  LET same == [p |-> p, pulse |-> FALSE, raised |-> FALSE, armed |-> armed, ev |-> <<>>] IN
  IF ~(p.origin = Some("caster") /\ p.t_loadcell_enter = None) THEN same
  ELSE IF ~contains(LOADCELL, z) THEN [same EXCEPT !.p = [p EXCEPT !.loadcell_hits = 0]]
  ELSE
    LET hits == p.loadcell_hits + 1
        p1 == [p EXCEPT !.loadcell_hits = hits] IN
    IF ~(armed /\ hits >= loadcell_enter_confirm_frames) THEN [same EXCEPT !.p = p1]
    ELSE
      LET p2 == [p1 EXCEPT !.t_loadcell_enter = Some(t), !.state = "on_loadcell"] IN
      IF p2.counted THEN [same EXCEPT !.p = p2]
      ELSE IF ~pulse_ok THEN [same EXCEPT !.p = p2, !.pulse = TRUE, !.raised = TRUE]
      ELSE [p |-> [p2 EXCEPT !.counted = TRUE],
            pulse |-> TRUE, raised |-> FALSE, armed |-> FALSE,
            ev |-> <<>>]

\* Mutant: the entry logic runs for every pipe, whatever its origin.
LoadcellEnter_AnyOrigin(p, z, t, armed, pulse_ok) ==
  LET same == [p |-> p, pulse |-> FALSE, raised |-> FALSE, armed |-> armed, ev |-> <<>>] IN
  IF ~(p.t_loadcell_enter = None) THEN same
  ELSE IF ~contains(LOADCELL, z) THEN [same EXCEPT !.p = [p EXCEPT !.loadcell_hits = 0]]
  ELSE
    LET hits == p.loadcell_hits + 1
        p1 == [p EXCEPT !.loadcell_hits = hits] IN
    IF ~(armed /\ hits >= loadcell_enter_confirm_frames) THEN [same EXCEPT !.p = p1]
    ELSE
      LET p2 == [p1 EXCEPT !.t_loadcell_enter = Some(t), !.state = "on_loadcell"] IN
      IF p2.counted THEN [same EXCEPT !.p = p2]
      ELSE IF ~pulse_ok THEN [same EXCEPT !.p = p2, !.pulse = TRUE, !.raised = TRUE]
      ELSE [p |-> [p2 EXCEPT !.counted = TRUE],
            pulse |-> TRUE, raised |-> FALSE, armed |-> FALSE,
            ev |-> <<PipeEnteredLoadcellEvent(p2.pipe_uid, p2.tracker_id, t)>>]

\* Mutant: a frame outside the load-cell ROI leaves loadcell_hits as it was.
LoadcellEnter_NoReset(p, z, t, armed, pulse_ok) ==
  LET same == [p |-> p, pulse |-> FALSE, raised |-> FALSE, armed |-> armed, ev |-> <<>>] IN
  IF ~(p.origin = Some("caster") /\ p.t_loadcell_enter = None) THEN same
  ELSE IF ~contains(LOADCELL, z) THEN same
  ELSE
    LET hits == p.loadcell_hits + 1
        p1 == [p EXCEPT !.loadcell_hits = hits] IN
    IF ~(armed /\ hits >= loadcell_enter_confirm_frames) THEN [same EXCEPT !.p = p1]
    ELSE
      LET p2 == [p1 EXCEPT !.t_loadcell_enter = Some(t), !.state = "on_loadcell"] IN
      IF p2.counted THEN [same EXCEPT !.p = p2]
      ELSE IF ~pulse_ok THEN [same EXCEPT !.p = p2, !.pulse = TRUE, !.raised = TRUE]
      ELSE [p |-> [p2 EXCEPT !.counted = TRUE],
            pulse |-> TRUE, raised |-> FALSE, armed |-> FALSE,
            ev |-> <<PipeEnteredLoadcellEvent(p2.pipe_uid, p2.tracker_id, t)>>]

\* Mutant: the pulse leaves the load-cell armed.
LoadcellEnter_StaysArmed(p, z, t, armed, pulse_ok) ==
  LET same == [p |-> p, pulse |-> FALSE, raised |-> FALSE, armed |-> armed, ev |-> <<>>] IN
  IF ~(p.origin = Some("caster") /\ p.t_loadcell_enter = None) THEN same
  ELSE IF ~contains(LOADCELL, z) THEN [same EXCEPT !.p = [p EXCEPT !.loadcell_hits = 0]]
  ELSE
    LET hits == p.loadcell_hits + 1
        p1 == [p EXCEPT !.loadcell_hits = hits] IN
    IF ~(armed /\ hits >= loadcell_enter_confirm_frames) THEN [same EXCEPT !.p = p1]
    ELSE
      LET p2 == [p1 EXCEPT !.t_loadcell_enter = Some(t), !.state = "on_loadcell"] IN
      IF p2.counted THEN [same EXCEPT !.p = p2]
      ELSE IF ~pulse_ok THEN [same EXCEPT !.p = p2, !.pulse = TRUE, !.raised = TRUE]
      ELSE [p |-> [p2 EXCEPT !.counted = TRUE],
            pulse |-> TRUE, raised |-> FALSE, armed |-> armed,
            ev |-> <<PipeEnteredLoadcellEvent(p2.pipe_uid, p2.tracker_id, t)>>]

\* Lines 143-164: load-cell entry.  The result is the pipe, whether
\* plc.pulse(pulse_tag, pulse_ms) was called, and the armed flag; when the
\* call raises (pulse_ok = FALSE) the statements after it have not run.
LoadcellEnter(p, z, t, armed, pulse_ok) ==
  LET same == [p |-> p, pulse |-> FALSE, raised |-> FALSE, armed |-> armed, ev |-> <<>>] IN
  IF ~(p.origin = Some("caster") /\ p.t_loadcell_enter = None) THEN same
  ELSE IF ~contains(LOADCELL, z) THEN [same EXCEPT !.p = [p EXCEPT !.loadcell_hits = 0]]
  ELSE
    LET hits == p.loadcell_hits + 1
        p1 == [p EXCEPT !.loadcell_hits = hits] IN
    IF ~(armed /\ hits >= loadcell_enter_confirm_frames) THEN [same EXCEPT !.p = p1]
    ELSE
      LET p2 == [p1 EXCEPT !.t_loadcell_enter = Some(t), !.state = "on_loadcell"] IN
      IF p2.counted THEN [same EXCEPT !.p = p2]
      ELSE IF ~pulse_ok THEN [same EXCEPT !.p = p2, !.pulse = TRUE, !.raised = TRUE]
      ELSE [p |-> [p2 EXCEPT !.counted = TRUE],
            pulse |-> TRUE, raised |-> FALSE, armed |-> FALSE,
            ev |-> <<PipeEnteredLoadcellEvent(p2.pipe_uid, p2.tracker_id, t)>>]

\* Mutant: a frame inside the load-cell ROI leaves loadcell_exit_misses as
\* it was.
LoadcellExit_NoReset(p, z, t) ==
  LET same == [p |-> p, ev |-> <<>>] IN
  IF ~(p.origin = Some("caster") /\ p.t_loadcell_enter # None /\ p.t_loadcell_exit = None)
    THEN same
  ELSE IF contains(LOADCELL, z)
    THEN same
  ELSE
    LET misses == p.loadcell_exit_misses + 1
        p1 == [p EXCEPT !.loadcell_exit_misses = misses] IN
    IF misses >= loadcell_exit_confirm_frames
      THEN [p |-> [p1 EXCEPT !.t_loadcell_exit = Some(t), !.state = "parked"],
            ev |-> <<PipeExitedLoadcellEvent(p.pipe_uid, p.tracker_id, t)>>]
      ELSE [same EXCEPT !.p = p1]

\* Mutant: a pipe that has left the load-cell leaves it again.
LoadcellExit_ExitsAgain(p, z, t) ==
  LET same == [p |-> p, ev |-> <<>>] IN
  IF ~(p.origin = Some("caster") /\ p.t_loadcell_enter # None)
    THEN same
  ELSE IF contains(LOADCELL, z)
    THEN [same EXCEPT !.p = [p EXCEPT !.loadcell_exit_misses = 0]]
  ELSE
    LET misses == p.loadcell_exit_misses + 1
        p1 == [p EXCEPT !.loadcell_exit_misses = misses] IN
    IF misses >= loadcell_exit_confirm_frames
      THEN [p |-> [p1 EXCEPT !.t_loadcell_exit = Some(t), !.state = "parked"],
            ev |-> <<PipeExitedLoadcellEvent(p.pipe_uid, p.tracker_id, t)>>]
      ELSE [same EXCEPT !.p = p1]

\* Mutant: the exit is latched without the state going to "parked".
LoadcellExit_StateStays(p, z, t) ==
  LET same == [p |-> p, ev |-> <<>>] IN
  IF ~(p.origin = Some("caster") /\ p.t_loadcell_enter # None /\ p.t_loadcell_exit = None)
    THEN same
  ELSE IF contains(LOADCELL, z)
    THEN [same EXCEPT !.p = [p EXCEPT !.loadcell_exit_misses = 0]]
  ELSE
    LET misses == p.loadcell_exit_misses + 1
        p1 == [p EXCEPT !.loadcell_exit_misses = misses] IN
    IF misses >= loadcell_exit_confirm_frames
      THEN [p |-> [p1 EXCEPT !.t_loadcell_exit = Some(t)],
            ev |-> <<PipeExitedLoadcellEvent(p.pipe_uid, p.tracker_id, t)>>]
      ELSE [same EXCEPT !.p = p1]

\* Lines 166-182: load-cell exit.  eligible was computed on line 143.
LoadcellExit(p, z, t) ==
  LET same == [p |-> p, ev |-> <<>>] IN
  IF ~(p.origin = Some("caster") /\ p.t_loadcell_enter # None /\ p.t_loadcell_exit = None)
    THEN same
  ELSE IF contains(LOADCELL, z)
    THEN [same EXCEPT !.p = [p EXCEPT !.loadcell_exit_misses = 0]]
  ELSE
    LET misses == p.loadcell_exit_misses + 1
        p1 == [p EXCEPT !.loadcell_exit_misses = misses] IN
    IF misses >= loadcell_exit_confirm_frames
      THEN [p |-> [p1 EXCEPT !.t_loadcell_exit = Some(t), !.state = "parked"],
            ev |-> <<PipeExitedLoadcellEvent(p.pipe_uid, p.tracker_id, t)>>]
      ELSE [same EXCEPT !.p = p1]

\* History kept beside a live record: what was observed of this track.
\*   n_seen       observed frames so far, counted up to origin_confirm_frames
\*   caster_only  every one of those frames had the centroid in the caster-origin ROI
\*   lc_run       consecutive observed frames, up to now, with the centroid in the
\*                load-cell ROI, counted up to loadcell_enter_confirm_frames
\*   crossed      after its origin was set, the pipe was seen in an ROI of the
\*                other kind (an "other" pipe in the caster-origin ROI, a
\*                "caster" pipe in a side ROI)
NewTrack == [n_seen |-> 0, caster_only |-> TRUE, lc_run |-> 0, crossed |-> FALSE]

\* h after a frame that found the pipe (p as it was before the frame) in zone z.
Observe(h, p, z) ==
  LET early == h.n_seen < origin_confirm_frames IN
  [n_seen |-> IF early THEN h.n_seen + 1 ELSE h.n_seen,
   caster_only |-> IF early THEN h.caster_only /\ contains(CASTER5_ORIGIN, z) ELSE h.caster_only,
   lc_run |-> IF contains(LOADCELL, z)
                THEN (IF h.lc_run < loadcell_enter_confirm_frames THEN h.lc_run + 1 ELSE h.lc_run)
                ELSE 0,
   crossed |-> \/ h.crossed
               \/ p.origin = Some("other") /\ contains(CASTER5_ORIGIN, z)
               \/ p.origin = Some("caster")
                    /\ (contains(LEFT_ORIGIN, z) \/ contains(RIGHT_ORIGIN, z))]

\* The FSM while update() runs: its fields, the two lists it is building,
\* the history, and ok = FALSE once an exception is propagating.
FsmState(ps, n, armed, iss, pul, qual, ret, trk) ==
  [pipes |-> ps, seq |-> n, armed |-> armed, updated |-> <<>>, events |-> <<>>,
   issued |-> iss, pulsed |-> pul, qualified |-> qual, retired |-> ret,
   track |-> trk, ok |-> TRUE]

\* Lines 86-185: the body of the loop over the detections, for detection d.
ProcessDet(s, d, frame, t, pulse_ok) ==
  IF ~s.ok THEN s
  ELSE IF d.cls_name # "pipe" \/ d.track_id = None THEN s
  ELSE
    LET tid == d.track_id[1]
        isNew == tid \notin Keys(s.pipes)
        seq1 == IF isNew THEN s.seq + 1 ELSE s.seq
        p0 == IF isNew THEN PipeStats(new_pipe_uid(seq1, t), tid) ELSE Get(s.pipes, tid)
        p1 == [p0 EXCEPT !.last_seen_frame = frame]
        p2 == AssignOrigin(p1, d.zone, t)
        ent == LoadcellEnter(p2, d.zone, t, s.armed, pulse_ok)
        ext == LoadcellExit(ent.p, d.zone, t)
        iss == IF isNew THEN Append(s.issued, p0.pipe_uid) ELSE s.issued
        pul == IF ent.pulse THEN Append(s.pulsed, p0.pipe_uid) ELSE s.pulsed
        h0 == IF isNew THEN NewTrack ELSE s.track[tid]
        h1 == Observe(h0, p1, d.zone)
        trk == [x \in DOMAIN s.track \cup {tid} |-> IF x = tid THEN h1 ELSE s.track[x]]
        qual == IF p2.origin = Some("caster") /\ h1.lc_run >= loadcell_enter_confirm_frames
                  THEN s.qualified \cup {p0.pipe_uid} ELSE s.qualified
    IN
    IF ent.raised
      \* p was mutated in place; a record created on this tick is not yet in the dict
      THEN [s EXCEPT !.ok = FALSE, !.seq = seq1, !.issued = iss, !.pulsed = pul,
                     !.qualified = qual,
                     !.track = IF isNew THEN s.track ELSE trk,
                     !.pipes = IF isNew THEN s.pipes ELSE Put(s.pipes, tid, ent.p)]
      ELSE [s EXCEPT !.seq = seq1, !.issued = iss, !.pulsed = pul, !.qualified = qual,
                     !.track = trk,
                     !.armed = ent.armed,
                     !.pipes = Put(s.pipes, tid, ext.p),
                     !.updated = Append(s.updated, ext.p),
                     !.events = s.events \o ent.ev \o ext.ev]

RECURSIVE ProcessDets(_, _, _, _, _)
\* Lines 86-185: the loop over the detections, in list order.
ProcessDets(s, dets, frame, t, pulse_ok) ==
  IF dets = <<>> THEN s
  ELSE ProcessDets(ProcessDet(s, Head(dets), frame, t, pulse_ok), Tail(dets), frame, t, pulse_ok)

\* Mutant: a track is stale one frame early (>= instead of >).
stale_ids_OffByOne(ps, frame) ==
  {ps[i].tracker_id : i \in {j \in 1..Len(ps) : frame - ps[j].last_seen_frame >= stale_track_frames}}

\* Line 188: the stale tracker ids.
stale_ids(ps, frame) ==
  {ps[i].tracker_id : i \in {j \in 1..Len(ps) : frame - ps[j].last_seen_frame > stale_track_frames}}

\* Mutant: every reclaimed record gets a synthesized exit.
StaleExits_Always(p) == TRUE

\* Line 193: does reclaiming p synthesize an exit?
StaleExits(p) == p.t_loadcell_enter # None /\ p.t_loadcell_exit = None

RECURSIVE StaleSweep(_, _, _, _)
\* Lines 189-203 over the dict in its order: [updated, events] gained.
StaleSweep(ps, stale, t, acc) ==
  IF ps = <<>> THEN acc
  ELSE
    LET p == Head(ps) IN
    IF p.tracker_id \in stale /\ StaleExits(p)
      THEN StaleSweep(Tail(ps), stale, t,
             [updated |-> Append(acc.updated,
                            [p EXCEPT !.t_loadcell_exit = Some(t), !.state = "parked"]),
              events |-> Append(acc.events,
                            PipeExitedLoadcellEvent(p.pipe_uid, p.tracker_id, t))])
      ELSE StaleSweep(Tail(ps), stale, t, acc)

\* Lines 187-203: stale reclamation, when no exception is propagating.
CleanUp(s, frame, t) ==
  IF ~s.ok THEN s
  ELSE
    LET stale == stale_ids(s.pipes, frame)
        got == StaleSweep(s.pipes, stale, t, [updated |-> s.updated, events |-> s.events]) IN
    [s EXCEPT !.pipes = SelectSeqBy(s.pipes, stale),
              !.updated = got.updated,
              !.events = got.events,
              !.retired = s.retired \cup {Get(s.pipes, x).pipe_uid : x \in stale},
              !.track = [x \in DOMAIN s.track \ stale |-> s.track[x]]]

\* Lines 56-205: PipeFlowFSM.update(frame_idx, ts, dets).
update(s, streak, frame, t, dets, pulse_ok) ==
  LET r == Rearm(dets, streak, s.armed)
      s1 == ProcessDets([s EXCEPT !.armed = r.armed], dets, frame, t, pulse_ok)
  IN [fsm |-> CleanUp(s1, frame, t), streak |-> r.streak]
----------------------------------------------------------------------------
\* The processing loop of App.run around the FSM.

\* What tracker.infer returns for one frame.  YoloByteTrack.infer gives every
\* box of a frame a track id, or (boxes.id is None) none of them one.  A
\* tracked frame holds each tracker id at most once, in any order.
RECURSIVE PipeDets(_, _, _)
PipeDets(a, o, i) ==
  IF i > Len(o) THEN <<>>
  ELSE IF a[o[i]] = None THEN PipeDets(a, o, i + 1)
       ELSE <<TrackDet("pipe", Some(o[i]), a[o[i]][1])>> \o PipeDets(a, o, i + 1)

\* A tracked person walking over the load-cell (a track id no pipe holds).
HumanDet == TrackDet("human", Some(0), {LOADCELL})

TrackedFrames(T) ==
  LET Placements == [T -> {None} \cup {Some(z) : z \in Zones}]
      Orders == {o \in [1..Cardinality(T) -> T] : \A i, j \in DOMAIN o : i # j => o[i] # o[j]}
  IN {PipeDets(a, o, 1) : a \in Placements, o \in Orders} \cup {<<HumanDet>>}

UntrackedFrames == {<<TrackDet("pipe", None, z)>> : z \in {{}, {LOADCELL}}}

FramesOf == [T \in {r.tids : r \in Runs} |-> TrackedFrames(T) \cup UntrackedFrames]

\* ByteTrack numbers new tracks upwards: a tracker id shows up only once
\* every smaller one has been handed out.
InOrder(dets, n) ==
  \A i \in 1..Len(dets) :
    (dets[i].cls_name = "pipe" /\ dets[i].track_id # None) =>
      \A x \in tids : x < dets[i].track_id[1] =>
        \/ n >= x
        \/ \E j \in 1..Len(dets) : dets[j].track_id = Some(x)

Frames == {f \in FramesOf[tids] : InOrder(f, seq)}

RECURSIVE dets_orig(_)
\* app.py lines 171-188: detections without a track id are dropped.
dets_orig(dets) ==
  IF dets = <<>> THEN <<>>
  ELSE IF Head(dets).track_id = None THEN dets_orig(Tail(dets))
       ELSE <<Head(dets)>> \o dets_orig(Tail(dets))

\* History: what the detector's output of one frame held.
Seen(dets) ==
  [tracked_pipe_in_loadcell |->
     \E i \in 1..Len(dets) : dets[i].cls_name = "pipe" /\ dets[i].track_id # None
                               /\ contains(LOADCELL, dets[i].zone),
   untracked_pipe_in_loadcell |->
     \E i \in 1..Len(dets) : dets[i].cls_name = "pipe" /\ dets[i].track_id = None
                               /\ contains(LOADCELL, dets[i].zone),
   other_in_loadcell |->
     \E i \in 1..Len(dets) : dets[i].cls_name # "pipe" /\ contains(LOADCELL, dets[i].zone)]

\* History of the quiet ticks since the last call of plc.pulse.
\*   run   consecutive ticks, up to the last one, on which no tracked pipe
\*         centroid lay in the load-cell ROI
\*   best  the longest such run since the pulse
\* Both are counted up to rearm_empty_frames.
CalmAfter(h, inside, pulse_made) ==
  IF pulse_made THEN [run |-> 0, best |-> 0]
  ELSE IF inside THEN [h EXCEPT !.run = 0]
  ELSE LET n == Min(rearm_empty_frames, h.run + 1) IN
       [run |-> n, best |-> Max(h.best, n)]

Init ==
  /\ \E r \in Runs : tids = r.tids /\ cfg = r.cfg
  /\ frame_idx = 0
  /\ ts = 0
  /\ running = TRUE
  /\ pipes = <<>>
  /\ seq = 0
  /\ loadcell_armed = TRUE
  /\ loadcell_empty_streak = 0
  /\ updated = <<>>
  /\ events = <<>>
  /\ seen = Seen(<<>>)
  /\ issued = <<>>
  /\ pulsed = <<>>
  /\ qualified = {}
  /\ retired = {}
  /\ track = <<>>
  /\ event_log = <<>>
  /\ calm = NoCalm
  /\ OthersOff("pipe")

\* The result of pipe_fsm.update on the frame raw, stamped ts + 1.
Updated(raw, pulse_ok) ==
  update(FsmState(pipes, seq, loadcell_armed, issued, pulsed, qualified, retired, track),
         loadcell_empty_streak, frame_idx, ts + 1, dets_orig(raw), pulse_ok)

Store(raw, r) ==
  /\ cfg' = cfg
  /\ tids' = tids
  /\ ts' = ts + 1
  /\ pipes' = r.fsm.pipes
  /\ seq' = r.fsm.seq
  /\ loadcell_armed' = r.fsm.armed
  /\ loadcell_empty_streak' = r.streak
  /\ seen' = Seen(raw)
  /\ issued' = r.fsm.issued
  /\ pulsed' = r.fsm.pulsed
  /\ qualified' = r.fsm.qualified
  /\ retired' = r.fsm.retired
  /\ track' = r.fsm.track
  /\ event_log' = IF r.fsm.ok THEN event_log \o r.fsm.events ELSE event_log
  /\ calm' = CalmAfter(calm, Seen(raw).tracked_pipe_in_loadcell,
                        Len(r.fsm.pulsed) > Len(pulsed))
  /\ OthersSame("pipe")

\* app.py lines 140-290: one iteration of the loop; update() returns.
Tick ==
  /\ running
  /\ frame_idx <= MaxFrame
  /\ \E raw \in Frames :
       \E r \in {Updated(raw, TRUE)} :
         /\ Store(raw, r)
         /\ updated' = r.fsm.updated
         /\ events' = r.fsm.events
         /\ frame_idx' = frame_idx + 1
         /\ running' = TRUE

\* Would update() reach plc.pulse on this frame?  (Only a pipe already
\* confirmed as caster, or confirmed by this very frame, can.)
MayPulse(raw) ==
  /\ any_pipe_in_loadcell(dets_orig(raw))
  /\ loadcell_armed

\* The same iteration when plc.pulse raises inside update(): the exception
\* leaves the loop (only KeyboardInterrupt is caught) and the run ends.
TickPulseRaises ==
  /\ running
  /\ frame_idx <= MaxFrame
  /\ \E raw \in {f \in Frames : MayPulse(f)} :
       \E r \in {Updated(raw, FALSE)} :
         /\ ~r.fsm.ok
         /\ Store(raw, r)
         /\ updated' = <<>>
         /\ events' = <<>>
         /\ frame_idx' = frame_idx
         /\ running' = FALSE

\* Runs in which every PLC call returns (the simulated client, or a healthy
\* field-protocol session).
Next == Tick

Spec == Init /\ [][Next]_vars

\* Runs in which a PLC call may raise.
NextPlcFault == Tick \/ TickPulseRaises

SpecPlcFault == Init /\ [][NextPlcFault]_vars
----------------------------------------------------------------------------
\* Boxes and ROIs of the gate geometry.

\* Box coordinates are floats in the source; here they are whole multiples
\* of 1/UnitsPerPixel of a pixel, so that a box can be narrower or lower
\* than one pixel.
UnitsPerPixel == 2

\* A fraction num/den with den > 0, and its comparisons.
Frac(n, d) == [num |-> n, den |-> d]
FracLT(q, r) == q.num * r.den < r.num * q.den
FracGE(q, r) == q.num * r.den >= r.num * q.den

\* vision/types.py BBox, coordinates in units.
BBox(x1, y1, x2, y2) == [x1 |-> x1, y1 |-> y1, x2 |-> x2, y2 |-> y2]
bbox_w(b) == Max(0, b.x2 - b.x1)
bbox_h(b) == Max(0, b.y2 - b.y1)
bbox_area(b) == bbox_w(b) * bbox_h(b)

\* BBox.centroid(), both coordinates doubled (so they stay whole numbers).
centroid(b) == <<b.x1 + b.x2, b.y1 + b.y2>>

\* A detection as the gate sources read it.
BoxDet(cls, conf, tid, b) == [cls_name |-> cls, conf |-> conf, track_id |-> tid, bbox |-> b]

\* str.lower() on the class names that occur.
lower(s) ==
  CASE s = "Humans" -> "humans"
    [] s = "Gate1" -> "gate1"
    [] s = "Mock" -> "mock"
    [] s = "MODBUS" -> "modbus"
    [] OTHER -> s

\* Mutant: the intersection over the area of the first box.
iou_OverFirstBox(a, b) ==
  LET ix1 == Max(a.x1, b.x1)
      iy1 == Max(a.y1, b.y1)
      ix2 == Min(a.x2, b.x2)
      iy2 == Min(a.y2, b.y2)
      iw == Max(0, ix2 - ix1)
      ih == Max(0, iy2 - iy1)
      inter == iw * ih
      union == bbox_area(a)
  IN IF inter <= 0 THEN Frac(0, 1)
     ELSE IF union > 0 THEN Frac(inter, union) ELSE Frac(0, 1)

\* gate_sources._iou(a, b), as a fraction.
iou(a, b) ==
  LET ix1 == Max(a.x1, b.x1)
      iy1 == Max(a.y1, b.y1)
      ix2 == Min(a.x2, b.x2)
      iy2 == Min(a.y2, b.y2)
      iw == Max(0, ix2 - ix1)
      ih == Max(0, iy2 - iy1)
      inter == iw * ih
      union == bbox_area(a) + bbox_area(b) - inter
  IN IF inter <= 0 THEN Frac(0, 1)
     ELSE IF union > 0 THEN Frac(inter, union) ELSE Frac(0, 1)

\* A polygon ROI: the rectangles the wizard draws, integer pixel corners.
PolygonROI(x1, y1, x2, y2) == [x1 |-> x1, y1 |-> y1, x2 |-> x2, y2 |-> y2]

\* PolygonROI.contains(x, y) for a doubled point in units: pointPolygonTest
\* >= 0, so the border counts as inside.
PolygonROI_contains(r, c) ==
  LET k == 2 * UnitsPerPixel IN
  /\ k * r.x1 <= c[1] /\ c[1] <= k * r.x2
  /\ k * r.y1 <= c[2] /\ c[2] <= k * r.y2

\* PolygonROI.area(), in square pixels.
PolygonROI_area(r) == (r.x2 - r.x1) * (r.y2 - r.y1)

roi_open(gate_name) == IF gate_name = "gate1" THEN "roi_gate1_open" ELSE "roi_gate2_open"
roi_closed(gate_name) == IF gate_name = "gate1" THEN "roi_gate1_closed" ELSE "roi_gate2_closed"

----------------------------------------------------------------------------
\* Gate status sources (logic/gate_sources.py) and the PLC read behind the
\* protocol source.

\* What one PLC read can come to on the wire.
ReadOutcomes == {"bit_true", "bit_false", "error_response", "raises"}

\* The result of a call: a value, or an exception.
Returns(v) == [raised |-> FALSE, value |-> v]
Raises == [raised |-> TRUE, value |-> FALSE]

\* ModbusPLCClient.read_bool(tag) when the read comes to outcome o.
ModbusPLCClient_read_bool(coils, tag, o) ==
  IF tag \notin coils THEN Returns(FALSE)
  ELSE IF o = "raises" THEN Raises
  ELSE IF o = "error_response" THEN Returns(FALSE)
  ELSE Returns(o = "bit_true")

\* MockPLCClient.read_bool(tag): state.get(tag, False); pulse leaves the
\* entry False and nothing else writes it.
MockPLCClient_read_bool(tag) == Returns(FALSE)

read_bool(c, tag, o) ==
  IF c.plc = "mock" THEN MockPLCClient_read_bool(tag)
  ELSE ModbusPLCClient_read_bool(c.coils, tag, o)

\* PLCGateSource.get_position(gate_name).
PLCGateSource_get_position(c, gate_name, o) ==
  LET tag == IF gate_name \in DOMAIN c.open_tags THEN c.open_tags[gate_name] ELSE "" IN
  IF tag = "" THEN "unknown"
  ELSE LET v == read_bool(c, tag, o) IN
       IF v.raised THEN "unknown"
       ELSE IF v.value THEN "open" ELSE "closed"

\* GeometryGateSource._best_det: the first detection of the highest
\* confidence among those of the class at or above min_conf.
best_det(dets, cls_name, min_conf) ==
  LET c == SelectSeq(dets, LAMBDA d : lower(d.cls_name) = lower(cls_name) /\ d.conf >= min_conf) IN
  IF c = <<>> THEN None
  ELSE Some(c[CHOOSE i \in 1..Len(c) :
                \A j \in 1..Len(c) : /\ c[j].conf <= c[i].conf
                                     /\ j < i => c[j].conf < c[i].conf])

\* Mutant: the guard only looks at the overlap with the gate box.
human_occludes_IouOnly(c, gate_name, gate_bbox, dets) ==
  \E i \in 1..Len(dets) :
    LET d == dets[i] IN
    /\ lower(d.cls_name) \in {"human", "humans"}
    /\ FracGE(iou(d.bbox, gate_bbox), c.human_iou_occlusion)

\* Lines 107-123: does some human detection make the loop return "unknown"?
human_occludes(c, gate_name, gate_bbox, dets) ==
  \E i \in 1..Len(dets) :
    LET d == dets[i] IN
    /\ lower(d.cls_name) \in {"human", "humans"}
    /\ \/ FracGE(iou(d.bbox, gate_bbox), c.human_iou_occlusion)
       \/ PolygonROI_contains(c.rois[roi_closed(gate_name)], centroid(d.bbox))
       \/ /\ PolygonROI_contains(c.rois["roi_safety_critical"], centroid(d.bbox))
          /\ FracGE(iou(d.bbox, gate_bbox), c.human_iou_occlusion)

\* Mutant: the area of the gate box is not compared with the closed ROI.
looks_open_IgnoresArea(c, gate_name, gate_bbox) ==
  LET in_open == PolygonROI_contains(c.rois[roi_open(gate_name)], centroid(gate_bbox))
      w_over_h == Frac(bbox_w(gate_bbox), Max(UnitsPerPixel, bbox_h(gate_bbox)))
  IN in_open /\ FracLT(w_over_h, c.max_w_over_h)

\* Lines 126-158: the decision from the gate box alone.
looks_open(c, gate_name, gate_bbox) ==
  LET in_open == PolygonROI_contains(c.rois[roi_open(gate_name)], centroid(gate_bbox))
      closed_area == Max(UnitsPerPixel * UnitsPerPixel,
                         UnitsPerPixel * UnitsPerPixel * PolygonROI_area(c.rois[roi_closed(gate_name)]))
      area_ratio == Frac(bbox_area(gate_bbox), closed_area)
      w_over_h == Frac(bbox_w(gate_bbox), Max(UnitsPerPixel, bbox_h(gate_bbox)))
  IN in_open /\ FracLT(w_over_h, c.max_w_over_h) /\ FracLT(area_ratio, c.max_area_ratio_vs_closed)

\* GeometryGateSource.get_position(gate_name, dets).  A dets of None and an
\* empty list both end in "unknown".
GeometryGateSource_get_position(c, gate_name, dets) ==
  LET gate_det == best_det(dets, gate_name, c.min_gate_conf) IN
  IF gate_det = None THEN "unknown"
  ELSE IF roi_open(gate_name) \notin DOMAIN c.rois \/ roi_closed(gate_name) \notin DOMAIN c.rois
    THEN "unknown"
  ELSE IF human_occludes(c, gate_name, gate_det[1].bbox, dets) THEN "unknown"
  ELSE IF looks_open(c, gate_name, gate_det[1].bbox) THEN "open"
  ELSE "closed"

\* VisionGateSource.get_position.
VisionGateSource_get_position == "unknown"

\* self.source.get_position(gate_name, frame, dets) for the input in.
get_position(c, gate_name, in) ==
  IF c.source = "plc" THEN PLCGateSource_get_position(c, gate_name, in.reads[gate_name])
  ELSE IF c.source = "vision" THEN VisionGateSource_get_position
  ELSE GeometryGateSource_get_position(c, gate_name, in.dets)

----------------------------------------------------------------------------
\* GateFSM (logic/gate_fsm.py)

\* Number of GateFSM.update calls in a run.
MaxGateTicks == 4

\* The ROIs of rois.yaml, in pixels.
GateRois ==
  [roi_gate1_open |-> PolygonROI(0, 0, 2, 2), roi_gate1_closed |-> PolygonROI(2, 0, 4, 2),
   roi_gate2_open |-> PolygonROI(0, 3, 2, 5), roi_gate2_closed |-> PolygonROI(2, 3, 4, 5),
   roi_safety_critical |-> PolygonROI(0, 0, 6, 6)]

\* The same without the closed reference ROI of gate2.
GateRoisPartial ==
  [n \in DOMAIN GateRois \ {"roi_gate2_closed"} |-> GateRois[n]]

\* cfg.runtime.gate with its defaults (min_conf 0.25 as a percentage, 0.9,
\* 0.85 and 0.10 as fractions).
GeometryCfg(rois, n) ==
  [source |-> "geometry", plc |-> "mock", coils |-> {}, open_tags |-> <<>>,
   stable_frames |-> n, plc_signal_on_open |-> TRUE,
   gate_tags |-> [gate1 |-> "gate1_open", gate2 |-> ""],
   rois |-> rois, min_gate_conf |-> 25, max_w_over_h |-> Frac(9, 10),
   max_area_ratio_vs_closed |-> Frac(85, 100), human_iou_occlusion |-> Frac(1, 10)]

ProtocolCfg(plc, coils, open_tags, n, signal) ==
  [source |-> "plc", plc |-> plc, coils |-> coils, open_tags |-> open_tags,
   stable_frames |-> n, plc_signal_on_open |-> signal,
   gate_tags |-> [gate1 |-> "gate1_open", gate2 |-> "gate2_open"],
   rois |-> GateRois, min_gate_conf |-> 25, max_w_over_h |-> Frac(9, 10),
   max_area_ratio_vs_closed |-> Frac(85, 100), human_iou_occlusion |-> Frac(1, 10)]

\* The GateFSM instances checked.  The tag of gate2 is missing from the
\* coil map in the first protocol instance and not configured at all in the
\* second.
GateCfgs ==
  { GeometryCfg(GateRois, 2),
    GeometryCfg(GateRoisPartial, 1),
    ProtocolCfg("modbus", {"gate1_open"}, [gate1 |-> "gate1_open", gate2 |-> "gate2_open"], 3, TRUE),
    ProtocolCfg("modbus", {"gate1_open"}, [gate1 |-> "gate1_open", gate2 |-> ""], 1, FALSE),
    ProtocolCfg("mock", {}, [gate1 |-> "gate1_open", gate2 |-> "gate2_open"], 2, TRUE) }

\* GateFSM.gates in dict order.
GateNames == <<"gate1", "gate2">>

\* logic/datatypes.py GateStatus(name=name).
GateStatus(name) == [name |-> name, position |-> "unknown", stable |-> 0, last_ts |-> 0]

GateOpenedEvent(gate_name, t) ==
  [kind |-> "GateOpenedEvent", gate_name |-> gate_name, t_open |-> t]

\* Gate boxes, in units: tall and narrow inside the open ROI of gate1; as
\* wide as high; tall, narrow and large; tall and narrow inside the closed
\* ROI; half a pixel by half a pixel inside the open ROI.
Gate1Boxes ==
  [slim |-> BBox(1, 0, 2, 4), wide |-> BBox(0, 0, 4, 4), large |-> BBox(0, 0, 3, 6),
   shut |-> BBox(5, 0, 6, 4), speck |-> BBox(1, 1, 2, 2)]

Gate1Dets ==
  { <<>>,
    <<BoxDet("gate1", 10, Some(7), Gate1Boxes.slim)>>,
    <<BoxDet("gate1", 60, Some(7), Gate1Boxes.slim), BoxDet("Gate1", 90, Some(8), Gate1Boxes.wide)>> }
  \cup {<<BoxDet("gate1", 60, Some(7), Gate1Boxes[k])>> : k \in DOMAIN Gate1Boxes}

Gate2Dets ==
  { <<>>,
    <<BoxDet("gate2", 25, Some(9), BBox(1, 6, 2, 10))>>,
    <<BoxDet("gate2", 80, Some(9), BBox(5, 6, 6, 10))>> }

\* Human boxes: far from everything; over most of the slim gate box; with
\* the centroid inside the closed ROI of gate1; touching the slim gate box.
HumanDets ==
  { <<>>,
    <<BoxDet("human", 50, Some(5), BBox(9, 9, 11, 12))>>,
    <<BoxDet("human", 50, Some(5), BBox(1, 0, 3, 4))>>,
    <<BoxDet("Humans", 50, Some(5), BBox(1, 0, 3, 4))>>,
    <<BoxDet("human", 50, Some(5), BBox(5, 1, 7, 3))>>,
    <<BoxDet("human", 50, Some(5), BBox(2, 0, 12, 12))>> }

NoReads == [gate1 |-> "bit_false", gate2 |-> "bit_false"]

\* What one GateFSM.update can be given: the detections of the frame, and
\* what the PLC reads of the tick come to.
GateInputs(c) ==
  IF c.source = "plc"
    THEN {[dets |-> <<>>, reads |-> r] :
            r \in [{"gate1", "gate2"} -> IF c.plc = "mock" THEN {"bit_false"} ELSE ReadOutcomes]}
    ELSE {[dets |-> g1 \o g2 \o h, reads |-> NoReads] :
            g1 \in Gate1Dets, g2 \in Gate2Dets, h \in HumanDets}

\* Mutant: the event is emitted on every tick at or past the threshold (>=).
GateStep_Refire(c, s, gate_name, pos, now) ==
  LET gs == s.gates[gate_name] IN
  IF pos = "unknown"
    THEN [s EXCEPT !.gates[gate_name] = [gs EXCEPT !.last_ts = now]]
    ELSE
      LET gs1 == IF pos = gs.position
                   THEN [gs EXCEPT !.stable = gs.stable + 1, !.last_ts = now]
                   ELSE [gs EXCEPT !.position = pos, !.stable = 1, !.last_ts = now]
          emit == gs1.position = "open" /\ gs1.stable >= c.stable_frames
          tag == IF gate_name \in DOMAIN c.gate_tags THEN c.gate_tags[gate_name] ELSE ""
      IN [gates |-> [s.gates EXCEPT ![gate_name] = gs1],
          events |-> IF emit THEN Append(s.events, GateOpenedEvent(gate_name, now)) ELSE s.events,
          pulsed |-> IF emit /\ c.plc_signal_on_open /\ tag # ""
                       THEN Append(s.pulsed, tag) ELSE s.pulsed]

\* Mutant: a change of position does not restart the stable counter.
GateStep_KeepsCount(c, s, gate_name, pos, now) ==
  LET gs == s.gates[gate_name] IN
  IF pos = "unknown"
    THEN [s EXCEPT !.gates[gate_name] = [gs EXCEPT !.last_ts = now]]
    ELSE
      LET gs1 == IF pos = gs.position
                   THEN [gs EXCEPT !.stable = gs.stable + 1, !.last_ts = now]
                   ELSE [gs EXCEPT !.position = pos, !.stable = gs.stable + 1, !.last_ts = now]
          emit == gs1.position = "open" /\ gs1.stable = c.stable_frames
          tag == IF gate_name \in DOMAIN c.gate_tags THEN c.gate_tags[gate_name] ELSE ""
      IN [gates |-> [s.gates EXCEPT ![gate_name] = gs1],
          events |-> IF emit THEN Append(s.events, GateOpenedEvent(gate_name, now)) ELSE s.events,
          pulsed |-> IF emit /\ c.plc_signal_on_open /\ tag # ""
                       THEN Append(s.pulsed, tag) ELSE s.pulsed]

\* Mutant: "unknown" is taken as a position like the other two.
GateStep_UnknownCounts(c, s, gate_name, pos, now) ==
  LET gs == s.gates[gate_name] IN
  IF FALSE
    THEN [s EXCEPT !.gates[gate_name] = [gs EXCEPT !.last_ts = now]]
    ELSE
      LET gs1 == IF pos = gs.position
                   THEN [gs EXCEPT !.stable = gs.stable + 1, !.last_ts = now]
                   ELSE [gs EXCEPT !.position = pos, !.stable = 1, !.last_ts = now]
          emit == gs1.position = "open" /\ gs1.stable = c.stable_frames
          tag == IF gate_name \in DOMAIN c.gate_tags THEN c.gate_tags[gate_name] ELSE ""
      IN [gates |-> [s.gates EXCEPT ![gate_name] = gs1],
          events |-> IF emit THEN Append(s.events, GateOpenedEvent(gate_name, now)) ELSE s.events,
          pulsed |-> IF emit /\ c.plc_signal_on_open /\ tag # ""
                       THEN Append(s.pulsed, tag) ELSE s.pulsed]

\* Mutant: the pulse does not look at plc_signal_on_open.
GateStep_PulseIgnoresSwitch(c, s, gate_name, pos, now) ==
  LET gs == s.gates[gate_name] IN
  IF pos = "unknown"
    THEN [s EXCEPT !.gates[gate_name] = [gs EXCEPT !.last_ts = now]]
    ELSE
      LET gs1 == IF pos = gs.position
                   THEN [gs EXCEPT !.stable = gs.stable + 1, !.last_ts = now]
                   ELSE [gs EXCEPT !.position = pos, !.stable = 1, !.last_ts = now]
          emit == gs1.position = "open" /\ gs1.stable = c.stable_frames
          tag == IF gate_name \in DOMAIN c.gate_tags THEN c.gate_tags[gate_name] ELSE ""
      IN [gates |-> [s.gates EXCEPT ![gate_name] = gs1],
          events |-> IF emit THEN Append(s.events, GateOpenedEvent(gate_name, now)) ELSE s.events,
          pulsed |-> IF emit /\ tag # ""
                       THEN Append(s.pulsed, tag) ELSE s.pulsed]

\* Mutant: an "unknown" answer starts the stable count again.
GateStep_UnknownResets(c, s, gate_name, pos, now) ==
  LET gs == s.gates[gate_name] IN
  IF pos = "unknown"
    THEN [s EXCEPT !.gates[gate_name] = [gs EXCEPT !.stable = 0, !.last_ts = now]]
    ELSE
      LET gs1 == IF pos = gs.position
                   THEN [gs EXCEPT !.stable = gs.stable + 1, !.last_ts = now]
                   ELSE [gs EXCEPT !.position = pos, !.stable = 1, !.last_ts = now]
          emit == gs1.position = "open" /\ gs1.stable = c.stable_frames
          tag == IF gate_name \in DOMAIN c.gate_tags THEN c.gate_tags[gate_name] ELSE ""
      IN [gates |-> [s.gates EXCEPT ![gate_name] = gs1],
          events |-> IF emit THEN Append(s.events, GateOpenedEvent(gate_name, now)) ELSE s.events,
          pulsed |-> IF emit /\ c.plc_signal_on_open /\ tag # ""
                       THEN Append(s.pulsed, tag) ELSE s.pulsed]

\* Lines 41-68: the body of the loop for one gate, given the position pos
\* the source returned.  s is [gates, events, pulsed].
GateStep(c, s, gate_name, pos, now) ==
  LET gs == s.gates[gate_name] IN
  IF pos = "unknown"
    THEN [s EXCEPT !.gates[gate_name] = [gs EXCEPT !.last_ts = now]]
    ELSE
      LET gs1 == IF pos = gs.position
                   THEN [gs EXCEPT !.stable = gs.stable + 1, !.last_ts = now]
                   ELSE [gs EXCEPT !.position = pos, !.stable = 1, !.last_ts = now]
          emit == gs1.position = "open" /\ gs1.stable = c.stable_frames
          tag == IF gate_name \in DOMAIN c.gate_tags THEN c.gate_tags[gate_name] ELSE ""
      IN [gates |-> [s.gates EXCEPT ![gate_name] = gs1],
          events |-> IF emit THEN Append(s.events, GateOpenedEvent(gate_name, now)) ELSE s.events,
          pulsed |-> IF emit /\ c.plc_signal_on_open /\ tag # ""
                       THEN Append(s.pulsed, tag) ELSE s.pulsed]

RECURSIVE GateSteps(_, _, _, _, _, _)
\* Lines 40-68: the loop over self.gates.
GateSteps(c, s, pos, now, names, i) ==
  IF i > Len(names) THEN s
  ELSE GateSteps(c, GateStep(c, s, names[i], pos[names[i]], now), pos, now, names, i + 1)

\* GateFSM.update(frame, dets) at time now with the positions pos.
GateFSM_update(c, g, pos, now) ==
  GateSteps(c, [gates |-> g, events |-> <<>>, pulsed |-> <<>>], pos, now, GateNames, 1)

\* History kept for each gate.
\*   len     the number of consecutive "open" answers up to the last tick
\*   fresh   that run began with the gate's position other than "open"
\*   events  the GateOpenedEvents emitted for the gate during that run
\*   cut     some earlier run that began so was ended by a "closed" answer
\*           before it was stable_frames long
NoRun == [len |-> 0, fresh |-> FALSE, events |-> 0, cut |-> FALSE]

\* The history after a tick on which the source answered pos for the gate in
\* state gs and emitted events for it or not.
RunAfter(run, gs, pos, emitted, n) ==
  LET e == IF emitted THEN 1 ELSE 0 IN
  IF pos = "open"
    THEN IF run.len = 0
           THEN [len |-> 1, fresh |-> gs.position # "open", events |-> e, cut |-> run.cut]
           ELSE [run EXCEPT !.len = run.len + 1, !.events = run.events + e]
    ELSE [NoRun EXCEPT !.cut = run.cut \/ (pos = "closed" /\ run.len >= 1
                                           /\ run.len < n /\ run.fresh)]

\* History of the source's answers for a gate.
\*   events   the GateOpenedEvents emitted for the gate so far
\*   opens    the "open" answers since the last "closed" answer, or since the
\*            construction
\*   fired    the last tick emitted an event for the gate
\*   closed   a "closed" answer came since the last event, or, when the last
\*            tick emitted one, since the event before it
\*   unknown  the same for an "unknown" answer
NoAnswers == [events |-> 0, opens |-> 0, fired |-> FALSE, closed |-> FALSE, unknown |-> FALSE]

AnswersAfter(h, pos, emitted) ==
  [events |-> IF emitted THEN h.events + 1 ELSE h.events,
   opens |-> IF pos = "closed" THEN 0 ELSE IF pos = "open" THEN h.opens + 1 ELSE h.opens,
   fired |-> emitted,
   closed |-> (~h.fired /\ h.closed) \/ pos = "closed",
   unknown |-> (~h.fired /\ h.unknown) \/ pos = "unknown"]

GateInit ==
  /\ gate_cfg \in GateCfgs
  /\ gates = [n \in {"gate1", "gate2"} |-> GateStatus(n)]
  /\ gate_tick = 0
  /\ gate_events = <<>>
  /\ gate_in = None
  /\ gate_pos = [n \in {"gate1", "gate2"} |-> "unknown"]
  /\ gate_pulsed = <<>>
  /\ gate_run = [n \in {"gate1", "gate2"} |-> NoRun]
  /\ gate_hist = [n \in {"gate1", "gate2"} |-> NoAnswers]
  /\ OthersOff("gate")

\* One call of GateFSM.update; every PLC pulse it makes returns.
GateTick ==
  /\ gate_tick < MaxGateTicks
  /\ \E in \in GateInputs(gate_cfg) :
       \E pos \in {[n \in {"gate1", "gate2"} |-> get_position(gate_cfg, n, in)]} :
         \E r \in {GateFSM_update(gate_cfg, gates, pos, gate_tick + 1)} :
           /\ gates' = r.gates
           /\ gate_events' = r.events
           /\ gate_pulsed' = r.pulsed
           /\ gate_in' = Some(in)
           /\ gate_pos' = pos
           /\ gate_run' = [n \in {"gate1", "gate2"} |->
                             RunAfter(gate_run[n], gates[n], pos[n],
                                      \E i \in 1..Len(r.events) : r.events[i].gate_name = n,
                                      gate_cfg.stable_frames)]
           /\ gate_hist' = [n \in {"gate1", "gate2"} |->
                              AnswersAfter(gate_hist[n], pos[n],
                                           \E i \in 1..Len(r.events) : r.events[i].gate_name = n)]
  /\ gate_tick' = gate_tick + 1
  /\ gate_cfg' = gate_cfg
  /\ OthersSame("gate")

NextGate == GateTick

SpecGate == GateInit /\ [][NextGate]_vars

----------------------------------------------------------------------------
\* PLC clients (plc/mock.py, plc/modbus.py): pulse and read_bool, one
\* statement at a time.

\* Number of pulse() calls in a run.
MaxPulses == 3

\* The tags callers pulse and read; the last one is in no coil map.
PlcTags == {"pulse_tag", "gate1_open", "spare"}

\* cfg.plc.modbus.coils: the tags that have a coil address.
PlcCoils == {"pulse_tag", "gate1_open"}

\* What one client.write_coil can come to: the coil is written; the
\* controller answers with an error response and the coil is left as it
\* was; the call raises and the coil is left as it was.
WriteOutcomes == {"ok", "error_response", "raises"}

\* Is the tag one the client acts on?  The simulated client takes any tag.
Configured(tag) == plc_mode = "mock" \/ tag \in PlcCoils

\* One write of value v to the tag with outcome o: the state and the
\* history after it.
WriteCoil(tag, v, o) ==
  /\ plc_state' = IF o = "ok" THEN [plc_state EXCEPT ![tag] = v] ELSE plc_state
  /\ plc_writes' = Append(plc_writes, [tag |-> tag, value |-> v, outcome |-> o])

PlcInit ==
  /\ plc_mode \in {"mock", "modbus"}
  /\ plc_state = [t \in PlcTags |-> FALSE]
  /\ plc_pc = "idle"
  /\ plc_tag = None
  /\ plc_writes = <<>>
  /\ plc_result = None
  /\ plc_pulses = 0
  /\ plc_read = None
  /\ OthersOff("plc")

\* ModbusPLCClient.pulse, lines 24-25: a tag without a coil address is a
\* no-op.
PulseNoCoil ==
  /\ plc_pc = "idle"
  /\ plc_pulses < MaxPulses
  /\ \E tag \in PlcTags :
       /\ ~Configured(tag)
       /\ plc_tag' = Some(tag)
  /\ plc_pulses' = plc_pulses + 1
  /\ plc_result' = Some("returned")
  /\ plc_writes' = <<>>
  /\ UNCHANGED <<plc_mode, plc_state, plc_pc, plc_read>>
  /\ OthersSame("plc")

\* pulse up to the sleep: self.state[tag] = True, or write_coil(addr, True).
\* A dict store always succeeds; a raising write_coil ends the pulse.
PulseWriteTrue ==
  /\ plc_pc = "idle"
  /\ plc_pulses < MaxPulses
  /\ \E tag \in PlcTags :
       /\ Configured(tag)
       /\ plc_tag' = Some(tag)
       /\ \E o \in IF plc_mode = "mock" THEN {"ok"} ELSE WriteOutcomes :
            /\ plc_state' = IF o = "ok" THEN [plc_state EXCEPT ![tag] = TRUE] ELSE plc_state
            /\ plc_writes' = <<[tag |-> tag, value |-> TRUE, outcome |-> o]>>
            /\ plc_pc' = IF o = "raises" THEN "idle" ELSE "sleeping"
            /\ plc_result' = IF o = "raises" THEN Some("failed") ELSE None
  /\ plc_pulses' = plc_pulses + 1
  /\ UNCHANGED <<plc_mode, plc_read>>
  /\ OthersSame("plc")

\* time.sleep returns and the pulse ends with self.state[tag] = False, or
\* write_coil(addr, False).
PulseWriteFalse ==
  /\ plc_pc = "sleeping"
  /\ \E o \in IF plc_mode = "mock" THEN {"ok"} ELSE WriteOutcomes :
       /\ WriteCoil(plc_tag[1], FALSE, o)
       /\ plc_result' = Some(IF o = "raises" THEN "failed" ELSE "returned")
  /\ plc_pc' = "idle"
  /\ UNCHANGED <<plc_mode, plc_tag, plc_pulses, plc_read>>
  /\ OthersSame("plc")

\* time.sleep is interrupted (KeyboardInterrupt): the exception leaves
\* pulse before the second write.
PulseInterrupted ==
  /\ plc_pc = "sleeping"
  /\ plc_pc' = "idle"
  /\ plc_result' = Some("failed")
  /\ UNCHANGED <<plc_mode, plc_state, plc_tag, plc_writes, plc_pulses, plc_read>>
  /\ OthersSame("plc")

\* read_bool(tag) between pulses: state.get(tag, False) on the simulated
\* client; on the field-protocol client the coil, or False for a tag
\* without a coil address.
ReadBool ==
  /\ plc_pc = "idle"
  /\ \E tag \in PlcTags :
       plc_read' = Some([tag |-> tag, value |-> Configured(tag) /\ plc_state[tag]])
  /\ UNCHANGED <<plc_mode, plc_state, plc_pc, plc_tag, plc_writes, plc_result, plc_pulses>>
  /\ OthersSame("plc")

NextPlc ==
  \/ PulseNoCoil
  \/ PulseWriteTrue
  \/ PulseWriteFalse
  \/ PulseInterrupted
  \/ ReadBool

SpecPlc == PlcInit /\ [][NextPlc]_vars

----------------------------------------------------------------------------
\* App.run (app.py): startup and the first iterations of the loop.

\* Number of capture.read() calls in a run.
MaxReads == 3

\* app.py REQUIRED_ROIS.
REQUIRED_ROIS ==
  {"roi_loadcell", "roi_caster5_origin", "roi_left_origin", "roi_right_origin",
   "roi_safety_critical", "roi_gate1_open", "roi_gate2_open",
   "roi_gate1_closed", "roi_gate2_closed"}

\* The configurations and environments App.run is started in: the ROI names
\* of rois.yaml (all, or all but one), plc.mode, whether the controller
\* accepts the connection, the gate_source setting, gate.stable_frames.
AppCfgs ==
  [rois : {REQUIRED_ROIS} \cup {REQUIRED_ROIS \ {n} : n \in {"roi_loadcell", "roi_gate2_closed"}},
   mode : {"mock", "Mock", "modbus", "MODBUS", "opcua", ""},
   connect_ok : BOOLEAN,
   gate_source : {"geometry", "plc", "vision"},
   stable_frames : {1, 2}]

\* Mutant: an unrecognised mode falls back to the simulated client.
create_plc_FallsBackToMock(c) ==
  IF lower(c.mode) = "modbus" /\ ~c.connect_ok
    THEN [raised |-> TRUE, error |-> Some("RuntimeError"), plc |-> None]
  ELSE IF lower(c.mode) = "modbus"
    THEN [raised |-> FALSE, error |-> None, plc |-> Some("modbus")]
  ELSE [raised |-> FALSE, error |-> None, plc |-> Some("mock")]

\* plc/factory.py create_plc(cfg), with ModbusPLCClient.__post_init__
\* raising RuntimeError when client.connect() fails.
create_plc(c) ==
  IF lower(c.mode) = "mock"
    THEN [raised |-> FALSE, error |-> None, plc |-> Some("mock")]
  ELSE IF lower(c.mode) = "modbus"
    THEN IF c.connect_ok
           THEN [raised |-> FALSE, error |-> None, plc |-> Some("modbus")]
           ELSE [raised |-> TRUE, error |-> Some("RuntimeError"), plc |-> None]
  ELSE [raised |-> TRUE, error |-> Some("ValueError"), plc |-> None]

\* App._build_gate_fsm: does the constructor call of the source raise?
\* PLCGateSource defines no __init__ taking plc and open_tags, and
\* VisionGateSource is a dataclass without fields.
build_gate_fsm_raises(gate_source) == gate_source \in {"plc", "vision"}

\* The GateFSM _build_gate_fsm returns for the geometry source.
AppGateCfg(c) == GeometryCfg(GateRois, c.stable_frames)

AppInit ==
  /\ app_cfg \in AppCfgs
  /\ app_pc = "validate_rois"
  /\ app_plc = None
  /\ app_error = None
  /\ app_gates = <<>>
  /\ app_pulses = <<>>
  /\ app_reads = 0
  /\ app_raw = None
  /\ OthersOff("app")

\* Lines 70-73: a missing required ROI raises RuntimeError.
ValidateRois ==
  /\ app_pc = "validate_rois"
  /\ IF REQUIRED_ROIS \subseteq app_cfg.rois
       THEN app_pc' = "create_plc" /\ app_error' = app_error
       ELSE app_pc' = "raised" /\ app_error' = Some("RuntimeError")
  /\ UNCHANGED <<app_cfg, app_plc, app_gates, app_pulses, app_reads, app_raw>>
  /\ OthersSame("app")

\* Line 79: plc = create_plc(self.cfg.plc).
CreatePlc ==
  /\ app_pc = "create_plc"
  /\ \E r \in {create_plc(app_cfg)} :
       /\ app_plc' = r.plc
       /\ app_error' = r.error
       /\ app_pc' = IF r.raised THEN "raised" ELSE "build"
  /\ UNCHANGED <<app_cfg, app_gates, app_pulses, app_reads, app_raw>>
  /\ OthersSame("app")

\* Lines 81-138: capture, recorder, tracker (taken to succeed), the
\* PipeFlowFSM and the GateFSM of the gate_source setting.
BuildFsms ==
  /\ app_pc = "build"
  /\ IF build_gate_fsm_raises(app_cfg.gate_source)
       THEN /\ app_pc' = "raised"
            /\ app_error' = Some("TypeError")
            /\ app_gates' = app_gates
       ELSE /\ app_pc' = "loop"
            /\ app_error' = app_error
            /\ app_gates' = [n \in {"gate1", "gate2"} |-> GateStatus(n)]
  /\ UNCHANGED <<app_cfg, app_plc, app_pulses, app_reads, app_raw>>
  /\ OthersSame("app")

\* Lines 141-144: capture.read() gives no frame and the loop goes round.
LoopNoFrame ==
  /\ app_pc = "loop"
  /\ app_reads < MaxReads
  /\ app_reads' = app_reads + 1
  /\ UNCHANGED <<app_cfg, app_pc, app_plc, app_error, app_gates, app_pulses, app_raw>>
  /\ OthersSame("app")

\* YoloByteTrack.infer (vision/tracker.py 55-81): every box of a frame gets
\* its track id, or, when boxes.id is None, none of them gets one.
infer(dets, has_ids) ==
  IF has_ids THEN dets
  ELSE [i \in 1..Len(dets) |-> [dets[i] EXCEPT !.track_id = None]]

\* Lines 141-200: a frame is read, tracker.infer runs on it, the detections
\* without a track id are left out of dets_orig (170-173), and
\* gate_fsm.update runs on dets_orig, with its
\* pulses.  update returns the pair (events, metrics), and the loop over
\* that pair reads event.gate_name of a list: AttributeError leaves the
\* loop, the finally block closes everything, and run ends with the
\* exception.
LoopFrame ==
  /\ app_pc = "loop"
  /\ app_reads < MaxReads
  /\ \E in \in GateInputs(AppGateCfg(app_cfg)), has_ids \in BOOLEAN :
       \E raw \in {infer(in.dets, has_ids)} :
         \E pos \in {[n \in {"gate1", "gate2"} |->
                        get_position(AppGateCfg(app_cfg), n,
                                     [dets |-> dets_orig(raw), reads |-> in.reads])]} :
           \E r \in {GateFSM_update(AppGateCfg(app_cfg), app_gates, pos, app_reads + 1)} :
             /\ app_gates' = r.gates
             /\ app_pulses' = app_pulses \o r.pulsed
             /\ app_raw' = Some(raw)
  /\ app_reads' = app_reads + 1
  /\ app_pc' = "crashed"
  /\ app_error' = Some("AttributeError")
  /\ UNCHANGED <<app_cfg, app_plc>>
  /\ OthersSame("app")

\* Lines 290-313: KeyboardInterrupt in the loop is caught; the finally block
\* closes everything and run returns.
LoopInterrupted ==
  /\ app_pc = "loop"
  /\ app_pc' = "stopped"
  /\ UNCHANGED <<app_cfg, app_plc, app_error, app_gates, app_pulses, app_reads, app_raw>>
  /\ OthersSame("app")

NextApp ==
  \/ ValidateRois
  \/ CreatePlc
  \/ BuildFsms
  \/ LoopNoFrame
  \/ LoopFrame
  \/ LoopInterrupted

SpecApp == AppInit /\ [][NextApp]_vars

----------------------------------------------------------------------------
\* SegmentedVideoRecorder (utils/video_recorder.py): the decision thread
\* calling start, push and stop, and the worker thread running _run.

\* Number of push() calls in a run.
MaxPushes == 3

\* The last second of a run.
MaxClock == 3

\* join(timeout=2.0) in stop().
JoinTimeout == 2

\* Frame resolutions.
FrameSizes == {"hd", "sd"}

\* RecordingCfg: queue_size, drop_when_full, segment duration and gap in
\* seconds, frame_size.
RecordingCfg(enabled, queue_size, drop, seg, gap, size) ==
  [enabled |-> enabled, queue_size |-> queue_size, drop_when_full |-> drop,
   segment_s |-> seg, gap_s |-> gap, frame_size |-> size]

RecCfgs ==
  { RecordingCfg(TRUE, 0, TRUE, 1, 0, None),
    RecordingCfg(TRUE, 2, TRUE, 2, 1, Some("hd")),
    RecordingCfg(TRUE, 1, FALSE, 1, 1, None),
    RecordingCfg(FALSE, 2, TRUE, 1, 0, None) }

\* queue.Queue(maxsize=max(1, int(cfg.queue_size))).
maxsize(c) == Max(1, c.queue_size)

\* Mutant: the queue takes the item whatever its length.
put_nowait_Unbounded(q, item, cap) == [full |-> FALSE, q |-> Append(q, item)]

\* queue.Queue.put_nowait(item) on a queue of capacity cap: queue.Full when
\* the queue holds cap items.
put_nowait(q, item, cap) ==
  IF Len(q) >= cap THEN [full |-> TRUE, q |-> q]
  ELSE [full |-> FALSE, q |-> Append(q, item)]

\* Mutant: no gap whatever the configuration.
gap_s_Zero(c) == 0

\* _segment_duration_s() and _gap_s().
segment_duration_s(c) == Max(1, c.segment_s)
gap_s(c) == Max(0, c.gap_s)

\* Mutant: the writer is forgotten without being released.
close_writer_LeavesOpen(files, writer) == files

\* _close_writer() on the segments: the open writer, if any, is released.
close_writer(files, writer) ==
  IF writer = None THEN files ELSE [files EXCEPT ![writer[1]].open = FALSE]

\* The worker fields _close_writer reads or writes.
close_writer_fields(writer) ==
  IF writer = None THEN {"_writer"} ELSE {"_writer", "_writer_path"}

\* A new segment: _new_segment_path() names it after the second it is
\* opened in.
Segment(now, size, end_ts) ==
  [path |-> now, size |-> size, opened |-> now, end_ts |-> end_ts, open |-> TRUE,
   frames |-> <<>>]

\* _run, line 180: now = time.time() for the dequeued frame f.
Sampled(f, now) == [id |-> f.id, size |-> f.size, now |-> now]

\* The recorder as __init__ leaves it.
RecNew ==
  /\ rec_cfg \in RecCfgs
  /\ rec_main = "new"
  /\ rec_item = None
  /\ rec_q = <<>>
  /\ rec_stop = FALSE
  /\ rec_thread = "none"
  /\ rec_wpc = "off"
  /\ rec_frame = None
  /\ rec_writer = None
  /\ rec_frame_size = rec_cfg.frame_size
  /\ rec_segment_end_ts = 0
  /\ rec_gap_until_ts = 0
  /\ rec_now = 0
  /\ rec_files = <<>>
  /\ rec_pushed = 0
  /\ rec_dropped = <<>>
  /\ rec_touch = {}

RecInit == RecNew /\ OthersOff("rec")

\* Time passes.
RecClock ==
  /\ rec_now < MaxClock
  /\ rec_now' = rec_now + 1
  /\ UNCHANGED <<rec_cfg, rec_main, rec_item, rec_q, rec_stop, rec_thread, rec_wpc,
                 rec_frame, rec_writer, rec_frame_size, rec_segment_end_ts,
                 rec_gap_until_ts, rec_files, rec_pushed, rec_dropped, rec_touch>>
  /\ OthersSame("rec")

\* start(): nothing when recording is disabled; otherwise the stop signal
\* is cleared and the worker thread started.
RecStart ==
  /\ rec_main = "new"
  /\ rec_main' = "running"
  /\ IF rec_cfg.enabled
       THEN rec_stop' = FALSE /\ rec_thread' = "alive" /\ rec_wpc' = "check"
       ELSE UNCHANGED <<rec_stop, rec_thread, rec_wpc>>
  /\ UNCHANGED <<rec_cfg, rec_item, rec_q, rec_frame, rec_writer, rec_frame_size,
                 rec_segment_end_ts, rec_gap_until_ts, rec_now, rec_files,
                 rec_pushed, rec_dropped, rec_touch>>
  /\ OthersSame("rec")

\* push(frame, ts), lines 85-97.  valid is FALSE for a frame that is None or
\* empty.  With drop_when_full the call returns at once, the frame queued
\* or discarded; without it a push on a full queue waits in put().
RecPush ==
  /\ rec_main = "running"
  /\ rec_pushed < MaxPushes
  /\ rec_pushed' = rec_pushed + 1
  /\ \E valid \in BOOLEAN, size \in FrameSizes :
       \E item \in {[id |-> rec_pushed + 1, size |-> size]} :
         IF ~rec_cfg.enabled \/ rec_stop \/ ~valid
           THEN UNCHANGED <<rec_q, rec_main, rec_item, rec_dropped>>
           ELSE \E r \in {put_nowait(rec_q, item, maxsize(rec_cfg))} :
                  /\ rec_q' = r.q
                  /\ IF r.full /\ ~rec_cfg.drop_when_full
                       THEN rec_main' = "pushing" /\ rec_item' = Some(item)
                       ELSE rec_main' = rec_main /\ rec_item' = rec_item
                  /\ rec_dropped' = IF r.full /\ rec_cfg.drop_when_full
                                      THEN Append(rec_dropped, item.id) ELSE rec_dropped
  /\ UNCHANGED <<rec_cfg, rec_stop, rec_thread, rec_wpc, rec_frame, rec_writer,
                 rec_frame_size, rec_segment_end_ts, rec_gap_until_ts, rec_now,
                 rec_files, rec_touch>>
  /\ OthersSame("rec")

\* put(item, timeout=0.01) ends: the worker made room and the frame is
\* queued, or the timeout expired and the frame is discarded.
RecPushWaitEnds ==
  /\ rec_main = "pushing"
  /\ \E r \in {put_nowait(rec_q, rec_item[1], maxsize(rec_cfg))} :
       /\ rec_q' = r.q
       /\ rec_dropped' = IF r.full THEN Append(rec_dropped, rec_item[1].id) ELSE rec_dropped
  /\ rec_main' = "running"
  /\ rec_item' = None
  /\ UNCHANGED <<rec_cfg, rec_stop, rec_thread, rec_wpc, rec_frame, rec_writer,
                 rec_frame_size, rec_segment_end_ts, rec_gap_until_ts, rec_now,
                 rec_files, rec_pushed, rec_touch>>
  /\ OthersSame("rec")

\* stop(), lines 78-79: the stop signal is set; join follows if there is a
\* thread.
RecStopSet ==
  /\ rec_main = "running"
  /\ rec_stop' = TRUE
  /\ rec_main' = IF rec_thread = "none" THEN "closing" ELSE "joining"
  /\ UNCHANGED <<rec_cfg, rec_item, rec_q, rec_thread, rec_wpc, rec_frame, rec_writer,
                 rec_frame_size, rec_segment_end_ts, rec_gap_until_ts, rec_now,
                 rec_files, rec_pushed, rec_dropped, rec_touch>>
  /\ OthersSame("rec")

\* stop(), line 80: join returns because the worker has ended.
RecJoinReturns ==
  /\ rec_main = "joining"
  /\ rec_thread = "done"
  /\ rec_main' = "closing"
  /\ UNCHANGED <<rec_cfg, rec_item, rec_q, rec_stop, rec_thread, rec_wpc, rec_frame,
                 rec_writer, rec_frame_size, rec_segment_end_ts, rec_gap_until_ts,
                 rec_now, rec_files, rec_pushed, rec_dropped, rec_touch>>
  /\ OthersSame("rec")

\* Mutant: join() without a timeout returns only when the worker has ended.
RecJoinTimesOut_WaitsForever ==
  /\ rec_main = "joining"
  /\ rec_thread = "done"
  /\ rec_main' = "closing"
  /\ UNCHANGED <<rec_cfg, rec_item, rec_q, rec_stop, rec_thread, rec_wpc, rec_frame,
                 rec_writer, rec_frame_size, rec_segment_end_ts, rec_gap_until_ts,
                 rec_now, rec_files, rec_pushed, rec_dropped, rec_touch>>
  /\ OthersSame("rec")

\* stop(), lines 80-82: join returns after JoinTimeout seconds with the
\* worker still alive, held up in the opening or the writing of a frame.
\* The clock stops at MaxClock.
RecJoinTimesOut ==
  /\ rec_main = "joining"
  /\ rec_thread = "alive"
  /\ rec_wpc \in {"frame", "write"}
  /\ rec_now' = Min(MaxClock, rec_now + JoinTimeout)
  /\ rec_main' = "closing"
  /\ UNCHANGED <<rec_cfg, rec_item, rec_q, rec_stop, rec_thread, rec_wpc, rec_frame,
                 rec_writer, rec_frame_size, rec_segment_end_ts, rec_gap_until_ts,
                 rec_files, rec_pushed, rec_dropped, rec_touch>>
  /\ OthersSame("rec")

\* stop(), line 83: _close_writer() on the decision thread.
RecStopClose ==
  /\ rec_main = "closing"
  /\ rec_files' = close_writer(rec_files, rec_writer)
  /\ rec_writer' = None
  /\ rec_touch' = IF rec_thread = "alive"
                    THEN rec_touch \cup close_writer_fields(rec_writer) ELSE rec_touch
  /\ rec_main' = "stopped"
  /\ UNCHANGED <<rec_cfg, rec_item, rec_q, rec_stop, rec_thread, rec_wpc, rec_frame,
                 rec_frame_size, rec_segment_end_ts, rec_gap_until_ts, rec_now,
                 rec_pushed, rec_dropped>>
  /\ OthersSame("rec")

\* _run, line 172: the loop condition.
WorkerCheck ==
  /\ rec_thread = "alive"
  /\ rec_wpc = "check"
  /\ IF rec_stop
       THEN rec_thread' = "done" /\ rec_wpc' = "off"
       ELSE rec_thread' = rec_thread /\ rec_wpc' = "get"
  /\ UNCHANGED <<rec_cfg, rec_main, rec_item, rec_q, rec_stop, rec_frame, rec_writer,
                 rec_frame_size, rec_segment_end_ts, rec_gap_until_ts, rec_now,
                 rec_files, rec_pushed, rec_dropped, rec_touch>>
  /\ OthersSame("rec")

\* _run, lines 173-174: a frame is dequeued.
WorkerGet ==
  /\ rec_thread = "alive"
  /\ rec_wpc = "get"
  /\ rec_q # <<>>
  /\ rec_frame' = Some(Head(rec_q))
  /\ rec_q' = Tail(rec_q)
  /\ rec_wpc' = "frame"
  /\ UNCHANGED <<rec_cfg, rec_main, rec_item, rec_stop, rec_thread, rec_writer,
                 rec_frame_size, rec_segment_end_ts, rec_gap_until_ts, rec_now,
                 rec_files, rec_pushed, rec_dropped, rec_touch>>
  /\ OthersSame("rec")

\* _run, lines 175-178: get times out on the empty queue; a segment past
\* its end is closed and the gap begins.
WorkerGetTimesOut ==
  /\ rec_thread = "alive"
  /\ rec_wpc = "get"
  /\ rec_q = <<>>
  /\ IF rec_writer # None /\ rec_now >= rec_segment_end_ts
       THEN /\ rec_files' = close_writer(rec_files, rec_writer)
            /\ rec_writer' = None
            /\ rec_gap_until_ts' = rec_now + gap_s(rec_cfg)
       ELSE UNCHANGED <<rec_files, rec_writer, rec_gap_until_ts>>
  /\ rec_wpc' = "check"
  /\ UNCHANGED <<rec_cfg, rec_main, rec_item, rec_q, rec_stop, rec_thread, rec_frame,
                 rec_frame_size, rec_segment_end_ts, rec_now, rec_pushed,
                 rec_dropped, rec_touch>>
  /\ OthersSame("rec")

\* Mutant: an open failure ends the worker thread.
WorkerPrepare_OpenFailureEndsWorker ==
  /\ rec_thread = "alive"
  /\ rec_wpc = "frame"
  /\ \E opens \in BOOLEAN :
       IF rec_now < rec_gap_until_ts
         THEN /\ opens
              /\ rec_wpc' = "check" /\ rec_frame' = None /\ rec_thread' = rec_thread
              /\ UNCHANGED <<rec_files, rec_writer, rec_gap_until_ts, rec_frame_size,
                             rec_segment_end_ts>>
         ELSE
           \E rotated \in
               {IF rec_writer # None /\ rec_now >= rec_segment_end_ts
                  THEN [files |-> close_writer(rec_files, rec_writer), writer |-> None,
                        gap |-> rec_now + gap_s(rec_cfg)]
                  ELSE [files |-> rec_files, writer |-> rec_writer, gap |-> rec_gap_until_ts]} :
             /\ rec_gap_until_ts' = rotated.gap
             /\ IF rec_now < rotated.gap
                  THEN /\ opens
                       /\ rec_wpc' = "check" /\ rec_frame' = None /\ rec_thread' = rec_thread
                       /\ rec_files' = rotated.files /\ rec_writer' = rotated.writer
                       /\ UNCHANGED <<rec_frame_size, rec_segment_end_ts>>
                ELSE IF rotated.writer # None
                  THEN /\ opens
                       /\ rec_wpc' = "write" /\ rec_frame' = Some(Sampled(rec_frame[1], rec_now))
                       /\ rec_thread' = rec_thread
                       /\ rec_files' = rotated.files /\ rec_writer' = rotated.writer
                       /\ UNCHANGED <<rec_frame_size, rec_segment_end_ts>>
                ELSE \E size \in {IF rec_frame_size = None THEN rec_frame[1].size
                                  ELSE rec_frame_size[1]} :
                       /\ rec_frame_size' = Some(size)
                       /\ IF opens
                            THEN /\ rec_files' = Append(rotated.files,
                                       Segment(rec_now, size, rec_now + segment_duration_s(rec_cfg)))
                                 /\ rec_writer' = Some(Len(rotated.files) + 1)
                                 /\ rec_segment_end_ts' = rec_now + segment_duration_s(rec_cfg)
                                 /\ rec_wpc' = "write" /\ rec_thread' = rec_thread
                                 /\ rec_frame' = Some(Sampled(rec_frame[1], rec_now))
                            ELSE /\ rec_files' = rotated.files
                                 /\ rec_writer' = None
                                 /\ rec_segment_end_ts' = rec_segment_end_ts
                                 /\ rec_wpc' = "off" /\ rec_frame' = None
                                 /\ rec_thread' = "done"
  /\ UNCHANGED <<rec_cfg, rec_main, rec_item, rec_q, rec_stop, rec_now,
                 rec_pushed, rec_dropped, rec_touch>>
  /\ OthersSame("rec")

\* _run, lines 180-196, for the dequeued frame: the time is sampled, then
\* come the gap test, the rotation
\* of a segment past its end, and the opening of a writer when there is
\* none, which may fail.  rotated tells what the rotation left behind.
WorkerPrepare ==
  /\ rec_thread = "alive"
  /\ rec_wpc = "frame"
  /\ \E opens \in BOOLEAN :
       IF rec_now < rec_gap_until_ts
         THEN /\ opens
              /\ rec_wpc' = "check" /\ rec_frame' = None
              /\ UNCHANGED <<rec_files, rec_writer, rec_gap_until_ts, rec_frame_size,
                             rec_segment_end_ts>>
         ELSE
           \E rotated \in
               {IF rec_writer # None /\ rec_now >= rec_segment_end_ts
                  THEN [files |-> close_writer(rec_files, rec_writer), writer |-> None,
                        gap |-> rec_now + gap_s(rec_cfg)]
                  ELSE [files |-> rec_files, writer |-> rec_writer, gap |-> rec_gap_until_ts]} :
             /\ rec_gap_until_ts' = rotated.gap
             /\ IF rec_now < rotated.gap
                  THEN /\ opens
                       /\ rec_wpc' = "check" /\ rec_frame' = None
                       /\ rec_files' = rotated.files /\ rec_writer' = rotated.writer
                       /\ UNCHANGED <<rec_frame_size, rec_segment_end_ts>>
                ELSE IF rotated.writer # None
                  THEN /\ opens
                       /\ rec_wpc' = "write" /\ rec_frame' = Some(Sampled(rec_frame[1], rec_now))
                       /\ rec_files' = rotated.files /\ rec_writer' = rotated.writer
                       /\ UNCHANGED <<rec_frame_size, rec_segment_end_ts>>
                ELSE \E size \in {IF rec_frame_size = None THEN rec_frame[1].size
                                  ELSE rec_frame_size[1]} :
                       /\ rec_frame_size' = Some(size)
                       /\ IF opens
                            THEN /\ rec_files' = Append(rotated.files,
                                       Segment(rec_now, size, rec_now + segment_duration_s(rec_cfg)))
                                 /\ rec_writer' = Some(Len(rotated.files) + 1)
                                 /\ rec_segment_end_ts' = rec_now + segment_duration_s(rec_cfg)
                                 /\ rec_wpc' = "write"
                                 /\ rec_frame' = Some(Sampled(rec_frame[1], rec_now))
                            ELSE /\ rec_files' = rotated.files
                                 /\ rec_writer' = None
                                 /\ rec_segment_end_ts' = rec_segment_end_ts
                                 /\ rec_wpc' = "check" /\ rec_frame' = None
  /\ UNCHANGED <<rec_cfg, rec_main, rec_item, rec_q, rec_stop, rec_thread, rec_now,
                 rec_pushed, rec_dropped, rec_touch>>
  /\ OthersSame("rec")

\* _run, lines 198-203: _write_frame, which does nothing without a writer;
\* a failed write closes the segment.
WorkerWrite ==
  /\ rec_thread = "alive"
  /\ rec_wpc = "write"
  /\ \E writes \in BOOLEAN :
       IF rec_writer = None \/ rec_frame_size = None
         THEN writes /\ UNCHANGED <<rec_files, rec_writer>>
       ELSE IF writes
         THEN /\ rec_files' = [rec_files EXCEPT ![rec_writer[1]].frames =
                                  Append(@, [id |-> rec_frame[1].id, size |-> rec_frame_size[1],
                                             shape |-> rec_frame[1].size,
                                             now |-> rec_frame[1].now, at |-> rec_now])]
              /\ rec_writer' = rec_writer
         ELSE /\ rec_files' = close_writer(rec_files, rec_writer)
              /\ rec_writer' = None
  /\ rec_wpc' = "check"
  /\ rec_frame' = None
  /\ UNCHANGED <<rec_cfg, rec_main, rec_item, rec_q, rec_stop, rec_thread,
                 rec_frame_size, rec_segment_end_ts, rec_gap_until_ts, rec_now,
                 rec_pushed, rec_dropped, rec_touch>>
  /\ OthersSame("rec")

NextRec ==
  \/ RecClock
  \/ RecStart
  \/ RecPush
  \/ RecPushWaitEnds
  \/ RecStopSet
  \/ RecJoinReturns
  \/ RecJoinTimesOut
  \/ RecStopClose
  \/ WorkerCheck
  \/ WorkerGet
  \/ WorkerGetTimesOut
  \/ WorkerPrepare
  \/ WorkerWrite

SpecRec == RecInit /\ [][NextRec]_vars

----------------------------------------------------------------------------
\* _iou (logic/gate_sources.py lines 16-30) called on two boxes, in both
\* argument orders.

\* Largest coordinate of a box corner.
MaxCoord == 2

\* The boxes: any four coordinates, so that x2 < x1 or y2 < y1 (w or h
\* clamped to 0), zero-width, touching, nested, crossing and disjoint boxes
\* are all there.
IouBoxes ==
  {BBox(x1, y1, x2, y2) : x1 \in 0..MaxCoord, y1 \in 0..MaxCoord,
                          x2 \in 0..MaxCoord, y2 \in 0..MaxCoord}

IouInit ==
  /\ iou_a \in IouBoxes
  /\ iou_b \in IouBoxes
  /\ iou_ab = None
  /\ iou_ba = None
  /\ OthersOff("iou")

\* _iou(a, b).
IouAB ==
  /\ iou_ab = None
  /\ iou_ab' = Some(iou(iou_a, iou_b))
  /\ UNCHANGED <<iou_a, iou_b, iou_ba>>
  /\ OthersSame("iou")

\* _iou(b, a).
IouBA ==
  /\ iou_ba = None
  /\ iou_ba' = Some(iou(iou_b, iou_a))
  /\ UNCHANGED <<iou_a, iou_b, iou_ab>>
  /\ OthersSame("iou")

NextIou ==
  \/ IouAB
  \/ IouBA

SpecIou == IouInit /\ [][NextIou]_vars

----------------------------------------------------------------------------
\* App.run's shutdown (app.py lines 291-313) with the recorder running: the
\* decision thread pushes frames in the loop, then leaves it and goes through
\* the finally block, whose last step is recorder.stop().

\* Resources the finally block releases before it stops the recorder.
FinResources == {"repo", "plc", "capture"}

\* Number of frames pushed before the loop is left.
MaxShutPushes == 1

\* App.run has not returned: the process, and with it the daemon worker
\* thread, is still there.
ProcessAlive == fin_pc # "done"

ShutInit ==
  /\ RecNew
  /\ rec_cfg.enabled
  /\ rec_cfg.drop_when_full
  /\ fin_pc = "loop"
  /\ fin_released = {}
  /\ PipeOff /\ GateOff /\ PlcOff /\ AppOff /\ IouOff

\* Lines 81-92 and 187-188: recorder.start() before the loop, recorder.push
\* in it.
LoopRecorder ==
  /\ fin_pc = "loop"
  /\ rec_pushed < MaxShutPushes
  /\ RecStart \/ RecPush

\* An exception or KeyboardInterrupt leaves the loop: the finally block
\* begins.
FinBegin ==
  /\ fin_pc = "loop"
  /\ rec_main = "running"
  /\ fin_pc' = "repo"
  /\ UNCHANGED fin_released
  /\ OthersSame("fin")

\* One try block of the finally block releasing resource r: the release
\* is run; it returns, or raises an Exception that the block swallows, and
\* the finally block goes on either way.
FinRelease(r, next) ==
  /\ fin_pc = r
  /\ fin_pc' = next
  /\ fin_released' = fin_released \cup {r}
  /\ OthersSame("fin")

\* Lines 294-298: repo.commit(); repo.close().
FinRepo == fin_pc = "repo" /\ FinRelease("repo", "plc")

\* Lines 299-302: plc.close().
FinPlc == fin_pc = "plc" /\ FinRelease("plc", "capture")

\* Lines 303-307: capture.close(); capture._cap.release().
FinCapture == fin_pc = "capture" /\ FinRelease("capture", "recorder")

\* Lines 308-310: recorder.stop() is called.
FinRecorderStop ==
  /\ fin_pc = "recorder"
  /\ RecStopSet

\* stop() goes on: join, then _close_writer.
FinRecorderStopping ==
  /\ fin_pc = "recorder"
  /\ RecJoinReturns \/ RecJoinTimesOut \/ RecStopClose

\* Lines 310-313: stop() has returned; destroyAllWindows.
FinRecorderStopped ==
  /\ fin_pc = "recorder"
  /\ rec_main = "stopped"
  /\ fin_pc' = "done"
  /\ fin_released' = fin_released \cup {"recorder"}
  /\ OthersSame("fin")

\* Lines 311-313: an Exception leaves stop() and is logged.
FinRecorderStopRaises ==
  /\ fin_pc = "recorder"
  /\ rec_main \in {"joining", "closing"}
  /\ fin_pc' = "done"
  /\ fin_released' = fin_released
  /\ OthersSame("fin")

\* Time passes in the loop; in the finally block only the join takes time.
ShutClock == fin_pc = "loop" /\ RecClock

\* The steps of the worker thread that return within their timeout: the loop
\* condition and get(timeout=0.2).
WorkerPolls == ProcessAlive /\ (WorkerCheck \/ WorkerGet \/ WorkerGetTimesOut)

\* The steps of the worker thread that may hang: opening a writer and
\* writing a frame.
WorkerDoesIO == ProcessAlive /\ (WorkerPrepare \/ WorkerWrite)

NextShutdown ==
  \/ ShutClock
  \/ LoopRecorder
  \/ FinBegin
  \/ FinRepo
  \/ FinPlc
  \/ FinCapture
  \/ FinRecorderStop
  \/ FinRecorderStopping
  \/ FinRecorderStopped
  \/ FinRecorderStopRaises
  \/ WorkerPolls
  \/ WorkerDoesIO

\* The decision thread always takes its next step in the finally block, and
\* the worker its polling steps; the worker's file operations may hang for
\* ever.
SpecShutdown ==
  /\ ShutInit
  /\ [][NextShutdown]_vars
  /\ WF_vars(FinRepo \/ FinPlc \/ FinCapture \/ FinRecorderStop \/ FinRecorderStopping
               \/ FinRecorderStopped)
  /\ WF_vars(WorkerPolls)

----------------------------------------------------------------------------
\* Vocabulary of the properties.

\* The records the FSM tracks, and those the last update() returned.
Tracked == Range(pipes)
Returned == Range(updated)

IsSet(x) == x # None

NoRepeat(s) == \A i, j \in 1..Len(s) : s[i] = s[j] => i = j

\* The events of kind k the last update() emitted for pipe uid.
EventsOf(evs, k, uid) == {i \in 1..Len(evs) : evs[i].kind = k /\ evs[i].pipe_uid = uid}

\* In a step: the frame index and timestamp the tick works on are frame_idx
\* and ts'.  The record of tracker id x is live before and after the step.
SamePipe(x) ==
  /\ x \in Keys(pipes)
  /\ x \in Keys(pipes')
  /\ Get(pipes', x).pipe_uid = Get(pipes, x).pipe_uid

\* In a step: the record of tracker id x was observed on this tick.
ObservedNow(x) ==
  /\ x \in Keys(pipes')
  /\ Get(pipes', x).last_seen_frame = frame_idx
  /\ frame_idx' # frame_idx \/ ~running'

\* In a step: the pipe of tracker id x, caster by origin and not yet entered,
\* completes loadcell_enter_confirm_frames consecutive observed frames inside
\* the load-cell ROI on this tick.
CompletesEntry(x) ==
  /\ ObservedNow(x)
  /\ Get(pipes', x).origin = Some("caster")
  /\ track'[x].lc_run >= loadcell_enter_confirm_frames
  /\ SamePipe(x) => ~IsSet(Get(pipes, x).t_loadcell_enter)

\* In a step: exactly one pulse was issued on this tick, for the pipe of
\* tracker id x, together with its PipeEnteredLoadcellEvent.
PulsedNow(x) ==
  /\ Len(pulsed') = Len(pulsed) + 1
  /\ pulsed'[Len(pulsed')] = Get(pipes', x).pipe_uid
  /\ Cardinality(EventsOf(events', "PipeEnteredLoadcellEvent", Get(pipes', x).pipe_uid)) = 1

----------------------------------------------------------------------------
\* C1: for every pipe_uid, the FSM calls plc.pulse on the trigger tag at most
\* once, however long the pipe stays in the load-cell ROI and whether or not
\* it leaves and re-enters after the load-cell has been re-armed.
C1_AtMostOnePulsePerPipe == NoRepeat(pulsed)

\* A counted pipe that has left the load-cell is seen inside it again while
\* the load-cell is armed.
C1_Witness ==
  /\ Len(pipes) = 1
  /\ pipes[1].counted
  /\ IsSet(pipes[1].t_loadcell_exit)
  /\ pipes[1].last_seen_frame = frame_idx - 1
  /\ seen.tracked_pipe_in_loadcell
  /\ loadcell_armed
  /\ pipes[1].pipe_uid \in Range(pulsed)

C3_SecondPipeSecondPulse ==
  [][ \A x \in tids :
        ( /\ loadcell_armed
          /\ \E q \in Tracked : /\ q.tracker_id # x
                                /\ q.counted
                                /\ IsSet(q.t_loadcell_exit)
                                /\ q.pipe_uid \in Range(pulsed)
          /\ CompletesEntry(x)
          /\ \A y \in tids \ {x} : ~CompletesEntry(y) )
        => /\ PulsedNow(x)
           /\ Get(pipes', x).pipe_uid \notin Range(pulsed)
           /\ \E i \in 1..Len(events') :
                events'[i] = PipeEnteredLoadcellEvent(Get(pipes', x).pipe_uid, x, ts')
    ]_vars

\* Two different pipes have been pulsed, the first of them has exited, and
\* the second one's event is in the last tick's events.
C3_Witness ==
  /\ Len(pulsed) = 2
  /\ pulsed[1] # pulsed[2]
  /\ \E q \in Tracked : q.pipe_uid = pulsed[1] /\ IsSet(q.t_loadcell_exit)
  /\ \E p \in Tracked : /\ p.pipe_uid = pulsed[2]
                        /\ EventsOf(events, "PipeEnteredLoadcellEvent", p.pipe_uid) # {}

\* C4 as stated: a tick with any pipe-class detection inside the load-cell
\* ROI, with or without a track identifier, resets the empty streak to 0 and
\* does not re-arm; any other tick adds one to the streak; the load-cell is
\* re-armed only when the streak has reached rearm_empty_frames.
C4_Original ==
  [][ frame_idx' # frame_idx =>
        LET inside == seen'.tracked_pipe_in_loadcell \/ seen'.untracked_pipe_in_loadcell IN
        /\ inside => loadcell_empty_streak' = 0 /\ ~(~loadcell_armed /\ loadcell_armed')
        /\ ~inside => loadcell_empty_streak' = loadcell_empty_streak + 1
        /\ (~loadcell_armed /\ loadcell_armed')
             => loadcell_empty_streak' >= rearm_empty_frames
    ]_vars

\* C4 as amended: the same with "pipe-class detection that carries a track
\* identifier": such a detection inside the load-cell ROI resets the streak
\* to 0 and the tick cannot re-arm; every other tick (an untracked pipe or
\* another class inside the ROI included) adds one to the streak; the
\* load-cell is re-armed only on a tick where it is disarmed and the streak
\* has reached rearm_empty_frames.
C4_StreakCountsTrackedPipes ==
  [][ frame_idx' # frame_idx =>
        LET inside == seen'.tracked_pipe_in_loadcell IN
        /\ inside => loadcell_empty_streak' = 0 /\ ~(~loadcell_armed /\ loadcell_armed')
        /\ ~inside => loadcell_empty_streak' = loadcell_empty_streak + 1
        /\ (~loadcell_armed /\ loadcell_armed')
             => ~inside /\ loadcell_empty_streak' >= rearm_empty_frames
    ]_vars

\* The load-cell was re-armed by the last tick, on which an untracked pipe
\* detection lay inside the load-cell ROI.
C4_Witness ==
  /\ Len(pulsed) >= 1
  /\ loadcell_armed
  /\ loadcell_empty_streak = rearm_empty_frames
  /\ seen.untracked_pipe_in_loadcell

\* C5: a record is reclaimed exactly on the first tick whose frame index is
\* more than stale_track_frames past its last_seen_frame (and which does not
\* see it again); if it had entered the load-cell and not exited, that tick
\* emits exactly one PipeExitedLoadcellEvent for its pipe_uid, stamped with
\* the tick's timestamp; otherwise that tick emits no event for it.
C5_StaleReclamation ==
  [][ \A i \in 1..Len(pipes) :
        LET p == pipes[i]
            x == p.tracker_id
            gone == ~SamePipe(x)
            late == frame_idx - p.last_seen_frame > stale_track_frames
            exits == EventsOf(events', "PipeExitedLoadcellEvent", p.pipe_uid)
        IN
        /\ gone => late
        /\ (late /\ frame_idx' # frame_idx) => gone \/ ObservedNow(x)
        /\ gone =>
             /\ p.pipe_uid \in retired'
             /\ EventsOf(events', "PipeEnteredLoadcellEvent", p.pipe_uid) = {}
             /\ IF IsSet(p.t_loadcell_enter) /\ ~IsSet(p.t_loadcell_exit)
                  THEN /\ Cardinality(exits) = 1
                       /\ \A k \in exits : events'[k].t_exit = ts' /\ events'[k].tracker_id = x
                  ELSE exits = {}
    ]_vars

\* The last tick reclaimed a pipe that was on the load-cell and emitted its
\* exit, and reclaimed or had reclaimed one that never entered.
C5_Witness ==
  /\ \E k \in 1..Len(events) : /\ events[k].kind = "PipeExitedLoadcellEvent"
                               /\ events[k].pipe_uid \in retired
                               /\ events[k].t_exit = ts
  /\ \E u \in retired : u \notin Range(pulsed)

\* C6: a record with an entry timestamp has origin "caster"; a record whose
\* origin is unset or "other" has no entry timestamp, is not counted, was
\* never pulsed and has no PipeEnteredLoadcellEvent.
C6_EntryOnlyForCaster ==
  \A p \in Tracked \cup Returned :
    /\ IsSet(p.t_loadcell_enter) => p.origin = Some("caster")
    /\ p.origin # Some("caster") =>
         /\ ~IsSet(p.t_loadcell_enter)
         /\ ~p.counted
         /\ p.state = "moving"
         /\ p.pipe_uid \notin Range(pulsed)
         /\ EventsOf(events, "PipeEnteredLoadcellEvent", p.pipe_uid) = {}

\* A pipe of origin "other" has sat in the load-cell ROI for the confirming
\* number of consecutive frames while the load-cell was armed.
C6_Witness ==
  \E p \in Tracked :
    /\ p.origin = Some("other")
    /\ cfg.loadcell_enter_confirm_frames >= 2
    /\ track[p.tracker_id].lc_run >= loadcell_enter_confirm_frames
    /\ p.last_seen_frame = frame_idx - 1
    /\ loadcell_armed

\* C7: in every tracked record and in every record update() returns, an exit
\* timestamp implies an entry timestamp.
C7_ExitImpliesEnter ==
  \A p \in Tracked \cup Returned : IsSet(p.t_loadcell_exit) => IsSet(p.t_loadcell_enter)

\* The last update() reclaimed a pulsed pipe that had entered the load-cell
\* and not exited, and returned its record with the exit it synthesized,
\* stamped with the tick's timestamp.
C7_Witness ==
  \E p \in Returned :
    /\ p.pipe_uid \in retired
    /\ p.t_loadcell_exit = Some(ts)
    /\ IsSet(p.t_loadcell_enter)
    /\ Len(pulsed) >= 1

\* C8: every pipe_uid the FSM hands out differs from all it handed out
\* before, also when a tracker id comes back after its record was reclaimed.
C8_FreshPipeUid ==
  /\ NoRepeat(issued)
  /\ \A p \in Tracked : p.pipe_uid \notin retired
  /\ \A i, j \in 1..Len(pipes) : pipes[i].pipe_uid = pipes[j].pipe_uid => i = j

\* A tracker id is tracked again after its earlier record was reclaimed.
C8_Witness ==
  /\ tids = {1}
  /\ retired # {}
  /\ Len(pipes) = 1
  /\ Len(issued) >= 2

\* C9: once the origin of a record is set it never changes.
C9_OriginSticky ==
  [][ \A x \in tids :
        (SamePipe(x) /\ IsSet(Get(pipes, x).origin))
          => Get(pipes', x).origin = Get(pipes, x).origin
    ]_vars

\* An "other" pipe has since been seen in the caster-origin ROI, and a
\* "caster" pipe in a side ROI.
C9_Witness ==
  \E p, q \in Tracked :
    /\ p.origin = Some("other") /\ track[p.tracker_id].crossed
    /\ q.origin = Some("caster") /\ track[q.tracker_id].crossed

\* C10: a pipe whose first origin_confirm_frames observed frames are all in
\* the caster-origin ROI has origin and t_origin unset until the last of them,
\* and from that frame on origin "caster" and t_origin the timestamp of that
\* frame.
C10_OriginConfirmedOnNthFrame ==
  [][ \A x \in tids :
        (x \in Keys(pipes') /\ track'[x].caster_only) =>
          LET p == Get(pipes', x)
              h == track'[x] IN
          /\ h.n_seen < origin_confirm_frames => ~IsSet(p.origin) /\ ~IsSet(p.t_origin)
          /\ h.n_seen >= origin_confirm_frames =>
               /\ p.origin = Some("caster")
               /\ IsSet(p.t_origin)
               /\ IF SamePipe(x) /\ IsSet(Get(pipes, x).t_origin)
                    THEN p.t_origin = Get(pipes, x).t_origin
                    ELSE p.t_origin = Some(ts') /\ ObservedNow(x)
    ]_vars

\* A pipe was confirmed "caster" by the last tick, its second frame in the
\* caster-origin ROI, and carries that tick's timestamp.
C10_Witness ==
  \E p \in Tracked :
    /\ cfg.origin_confirm_frames >= 2
    /\ track[p.tracker_id].caster_only
    /\ track[p.tracker_id].n_seen = origin_confirm_frames
    /\ p.origin = Some("caster")
    /\ p.last_seen_frame = frame_idx - 1
    /\ p.t_origin = Some(ts)
    /\ p.origin_hits = origin_confirm_frames

----------------------------------------------------------------------------
\* Vocabulary of the gate properties.

GateSet == {"gate1", "gate2"}

\* The GateOpenedEvents for gate g in a list of events.
GateEventsOf(evs, g) == {i \in 1..Len(evs) : evs[i].gate_name = g}

\* The pulses of the tag mapped to gate g in a list of pulsed tags.
GatePulsesOf(c, tags, g) ==
  {i \in 1..Len(tags) : g \in DOMAIN c.gate_tags /\ tags[i] = c.gate_tags[g]}

\* In a step: the tick left gate g as it was, but for last_ts, and emitted
\* and pulsed nothing for it.
GateFrozen(g) ==
  /\ gates'[g].position = gates[g].position
  /\ gates'[g].stable = gates[g].stable
  /\ gates'[g].last_ts = gate_tick'
  /\ GateEventsOf(gate_events', g) = {}
  /\ GatePulsesOf(gate_cfg, gate_pulsed', g) = {}

\* The gate box the geometry source chooses for gate g among dets, if any.
ChosenBox(c, g, dets) == best_det(dets, g, c.min_gate_conf)

\* Some human-class detection overlaps the chosen gate box at or above the
\* occlusion threshold, or has its centroid inside the closed ROI of gate g.
HumanOverGate(c, g, dets) ==
  \E i \in 1..Len(dets) :
    /\ lower(dets[i].cls_name) \in {"human", "humans"}
    /\ \/ /\ ChosenBox(c, g, dets) # None
          /\ FracGE(iou(dets[i].bbox, ChosenBox(c, g, dets)[1].bbox), c.human_iou_occlusion)
       \/ /\ roi_closed(g) \in DOMAIN c.rois
          /\ PolygonROI_contains(c.rois[roi_closed(g)], centroid(dets[i].bbox))

----------------------------------------------------------------------------
\* C11: in a run of consecutive "open" answers that began with the gate's
\* position other than "open", the tick that makes the run stable_frames
\* long emits exactly one GateOpenedEvent for the gate, and every other tick
\* of the run, before or after, emits none.
C11_OneEventOnNthTick ==
  [][ \A g \in GateSet :
        (gate_pos'[g] = "open" /\ gate_run'[g].fresh)
          => Cardinality(GateEventsOf(gate_events', g))
               = IF gate_run'[g].len = gate_cfg.stable_frames THEN 1 ELSE 0
    ]_vars

\* A gate stays open past the threshold: its run is longer than
\* stable_frames, it emitted one event, and none on the last tick.
C11_Witness ==
  \E g \in GateSet :
    /\ gate_cfg.stable_frames >= 2
    /\ gate_run[g].fresh
    /\ gate_run[g].len > gate_cfg.stable_frames
    /\ gate_run[g].events = 1
    /\ gates[g].position = "open"
    /\ GateEventsOf(gate_events, g) = {}

\* C12 as stated: when a "closed" answer ends a run of fewer than
\* stable_frames consecutive "open" answers, no GateOpenedEvent was emitted
\* during that run; and the first "open" answer after a "closed" one sets
\* the stable counter to 1.
C12_Original ==
  [][ \A g \in GateSet :
        /\ (gate_pos'[g] = "closed" /\ gate_run[g].len >= 1
              /\ gate_run[g].len < gate_cfg.stable_frames)
             => gate_run[g].events = 0 /\ GateEventsOf(gate_events', g) = {}
        /\ (gate_pos'[g] = "open" /\ gate_run[g].len = 0 /\ gates[g].position = "closed")
             => gates'[g].stable = 1
    ]_vars

\* C12 as amended: the same for a run that began with the gate's position
\* other than "open" (a run that resumes, after "unknown" answers, an
\* earlier open run continues that run's count and may reach the threshold).
C12_PartialRunNoEvent ==
  [][ \A g \in GateSet :
        /\ (gate_pos'[g] = "closed" /\ gate_run[g].len >= 1 /\ gate_run[g].fresh
              /\ gate_run[g].len < gate_cfg.stable_frames)
             => gate_run[g].events = 0 /\ GateEventsOf(gate_events', g) = {}
        /\ (gate_pos'[g] = "open" /\ gate_run[g].len = 0 /\ gates[g].position = "closed")
             => /\ gates'[g].stable = 1
                /\ gate_cfg.stable_frames > 1 => GateEventsOf(gate_events', g) = {}
    ]_vars

\* A partial run was ended by "closed", and the gate is now on the first
\* tick of a later open run with its stable counter at 1.
C12_Witness ==
  \E g \in GateSet :
    /\ gate_run[g].cut
    /\ gate_run[g].len = 1
    /\ gate_pos[g] = "open"
    /\ gates[g].stable = 1
    /\ GateEventsOf(gate_events, g) = {}

\* C13: a tick on which the source answers "unknown" for a gate leaves the
\* gate's position and stable counter as they were, sets last_ts, and emits
\* no GateOpenedEvent and no pulse for that gate.
C13_UnknownFreezes ==
  [][ \A g \in GateSet : gate_pos'[g] = "unknown" => GateFrozen(g) ]_vars

\* The source answered "unknown" for a gate that is open with its stable
\* counter at the threshold.
C13_Witness ==
  \E g \in GateSet :
    /\ gate_pos[g] = "unknown"
    /\ gates[g].position = "open"
    /\ gates[g].stable = gate_cfg.stable_frames
    /\ gates[g].last_ts = gate_tick
    /\ GateEventsOf(gate_events, g) = {}

\* C14: with the geometry source, on a tick where a human-class detection
\* overlaps the chosen gate box at or above human_iou_occlusion or has its
\* centroid inside the gate's closed ROI, the source answers "unknown" and
\* the tick leaves the gate as it was, without event or pulse.
C14_HumanOcclusionGuard ==
  [][ \A g \in GateSet :
        (gate_cfg.source = "geometry" /\ gate_in' # None
           /\ HumanOverGate(gate_cfg, g, gate_in'[1].dets))
          => gate_pos'[g] = "unknown" /\ GateFrozen(g)
    ]_vars

\* A human stands with the centroid in the closed ROI of gate1, not touching
\* a gate box that looks open, while gate1 is one tick short of the
\* threshold.
C14_Witness ==
  /\ gate_cfg.source = "geometry"
  /\ gate_in # None
  /\ HumanOverGate(gate_cfg, "gate1", gate_in[1].dets)
  /\ ChosenBox(gate_cfg, "gate1", gate_in[1].dets) # None
  /\ looks_open(gate_cfg, "gate1", ChosenBox(gate_cfg, "gate1", gate_in[1].dets)[1].bbox)
  /\ \A i \in 1..Len(gate_in[1].dets) :
       iou(gate_in[1].dets[i].bbox, ChosenBox(gate_cfg, "gate1", gate_in[1].dets)[1].bbox).num = 0
         \/ lower(gate_in[1].dets[i].cls_name) \notin {"human", "humans"}
  /\ gates["gate1"].position = "open"
  /\ gates["gate1"].stable = gate_cfg.stable_frames - 1
  /\ gate_pos["gate1"] = "unknown"

\* C15 as stated: the protocol source answers "unknown" when the gate has no
\* configured tag and when the read of its coil fails, by an exception or by
\* a failed or empty response, and answers "open" or "closed" from a
\* successfully read bit.
C15_Original ==
  (gate_cfg # None /\ gate_cfg.source = "plc" /\ gate_cfg.plc = "modbus" /\ gate_in # None) =>
    \A g \in GateSet :
      LET tag == gate_cfg.open_tags[g]
          o == gate_in[1].reads[g] IN
      /\ tag = "" => gate_pos[g] = "unknown"
      /\ (tag \in gate_cfg.coils /\ o \in {"raises", "error_response"}) => gate_pos[g] = "unknown"
      /\ (tag \in gate_cfg.coils /\ o = "bit_true") => gate_pos[g] = "open"
      /\ (tag \in gate_cfg.coils /\ o = "bit_false") => gate_pos[g] = "closed"

\* C16 as stated: with a gate box chosen, both ROIs present and no human
\* over the gate, the answer is "open" iff the centroid is inside the open
\* ROI, width / height < max_w_over_h and area / closed ROI area <
\* max_area_ratio_vs_closed, and "closed" otherwise; with no gate box chosen
\* the answer is "unknown".
C16_Original ==
  (gate_cfg # None /\ gate_cfg.source = "geometry" /\ gate_in # None) =>
    \A g \in GateSet :
      LET c == gate_cfg
          det == ChosenBox(c, g, gate_in[1].dets) IN
      IF det = None THEN gate_pos[g] = "unknown"
      ELSE (roi_open(g) \in DOMAIN c.rois /\ roi_closed(g) \in DOMAIN c.rois
              /\ ~HumanOverGate(c, g, gate_in[1].dets))
           => LET b == det[1].bbox
                  u == UnitsPerPixel * UnitsPerPixel
                  opens ==
                    /\ PolygonROI_contains(c.rois[roi_open(g)], centroid(b))
                    /\ bbox_w(b) * c.max_w_over_h.den < c.max_w_over_h.num * bbox_h(b)
                    /\ bbox_area(b) * c.max_area_ratio_vs_closed.den
                         < c.max_area_ratio_vs_closed.num * u * PolygonROI_area(c.rois[roi_closed(g)])
              IN gate_pos[g] = IF opens THEN "open" ELSE "closed"

\* C16 as amended: the same with the width divided by the height or one
\* pixel, whichever is larger, and the area by the closed ROI area or one
\* square pixel, whichever is larger.
C16_GeometryDecision ==
  (gate_cfg # None /\ gate_cfg.source = "geometry" /\ gate_in # None) =>
    \A g \in GateSet :
      LET c == gate_cfg
          det == ChosenBox(c, g, gate_in[1].dets) IN
      IF det = None THEN gate_pos[g] = "unknown"
      ELSE (roi_open(g) \in DOMAIN c.rois /\ roi_closed(g) \in DOMAIN c.rois
              /\ ~HumanOverGate(c, g, gate_in[1].dets))
           => LET b == det[1].bbox
                  u == UnitsPerPixel * UnitsPerPixel
                  opens ==
                    /\ PolygonROI_contains(c.rois[roi_open(g)], centroid(b))
                    /\ bbox_w(b) * c.max_w_over_h.den
                         < c.max_w_over_h.num * Max(UnitsPerPixel, bbox_h(b))
                    /\ bbox_area(b) * c.max_area_ratio_vs_closed.den
                         < c.max_area_ratio_vs_closed.num
                             * Max(u, u * PolygonROI_area(c.rois[roi_closed(g)]))
              IN gate_pos[g] = IF opens THEN "open" ELSE "closed"

\* On one tick a box lower than a pixel was taken as an open gate1 while
\* the box of gate2, in its closed ROI, was taken as closed and no human was
\* over either.
C16_Witness ==
  /\ gate_cfg.source = "geometry"
  /\ gate_in # None
  /\ ChosenBox(gate_cfg, "gate1", gate_in[1].dets) # None
  /\ bbox_h(ChosenBox(gate_cfg, "gate1", gate_in[1].dets)[1].bbox) < UnitsPerPixel
  /\ ~HumanOverGate(gate_cfg, "gate1", gate_in[1].dets)
  /\ ~HumanOverGate(gate_cfg, "gate2", gate_in[1].dets)
  /\ gate_pos = [gate1 |-> "open", gate2 |-> "closed"]

\* C17 as stated: whenever a pulse on a configured tag has finished,
\* returned or failed, the output of its tag is low, and between pulses
\* read_bool of a pulsed tag on the simulated client is false.
C17_Original ==
  /\ (plc_pc = "idle" /\ plc_tag # None /\ Configured(plc_tag[1])) => ~plc_state[plc_tag[1]]
  /\ (plc_mode = "mock" /\ plc_pc = "idle" /\ plc_read # None) => ~plc_read[1].value

\* The run starts with a required ROI missing, an unrecognised PLC mode, or
\* a field-protocol controller that refuses the connection.
StartupFails(c) ==
  \/ ~(REQUIRED_ROIS \subseteq c.rois)
  \/ lower(c.mode) \notin {"mock", "modbus"}
  \/ lower(c.mode) = "modbus" /\ ~c.connect_ok

\* C18: in a run that starts with a required ROI missing, an unrecognised
\* PLC mode or a failing field-protocol connection, App.run never gets past
\* create_plc: no FSM is built, no frame is read, no pulse is issued, and once
\* it has left the startup steps it has raised.
C18_StartupFailureNoPulse ==
  (app_cfg # None /\ StartupFails(app_cfg)) =>
    /\ app_pc \in {"validate_rois", "create_plc", "raised"}
    /\ app_pulses = <<>>
    /\ app_reads = 0
    /\ app_gates = <<>>
    /\ app_pc = "raised" => app_error \in {Some("RuntimeError"), Some("ValueError")}

\* All ROIs are there and the mode is modbus, but the controller refused
\* the connection: run has raised RuntimeError out of create_plc.
C18_Witness ==
  /\ app_cfg # None
  /\ REQUIRED_ROIS \subseteq app_cfg.rois
  /\ lower(app_cfg.mode) = "modbus"
  /\ ~app_cfg.connect_ok
  /\ app_cfg.stable_frames = 1
  /\ app_pc = "raised"
  /\ app_error = Some("RuntimeError")
  /\ app_pulses = <<>>

\* C19: no step leaves more than max(1, queue_size) frames in the queue;
\* under drop_when_full no step leaves the producer waiting in push: every
\* push returns in the step that made it, a push on a full queue leaves the
\* queue as it was, and a frame is discarded only when the queue is full.
C19_DropWhenFullNeverBlocks ==
  [][ /\ Len(rec_q') <= maxsize(rec_cfg)
      /\ rec_cfg.drop_when_full => rec_main' # "pushing"
      /\ (rec_cfg.drop_when_full /\ rec_pushed' = rec_pushed + 1) =>
           /\ rec_main' = "running"
           /\ Len(rec_q) >= maxsize(rec_cfg) => rec_q' = rec_q
           /\ Len(rec_dropped') > Len(rec_dropped) => Len(rec_q) = maxsize(rec_cfg)
    ]_vars

\* With queue_size 0 the queue holds its one frame, a frame offered to the
\* full queue has been discarded, the producer is not waiting, and the
\* worker has dequeued and written a frame in between.
C19_Witness ==
  /\ rec_cfg # None
  /\ rec_cfg.drop_when_full
  /\ rec_cfg.queue_size = 0
  /\ Len(rec_q) = 1
  /\ rec_dropped # <<>>
  /\ rec_main = "running"
  /\ rec_thread = "alive"
  /\ \E i \in 1..Len(rec_files) : rec_files[i].frames # <<>>

\* C20 as stated: no operation on the decision thread reads or writes a
\* field of the worker (the writer and its path, the segment end time, the
\* gap deadline, the frame size) while the worker is alive.
C20_Original == rec_touch = {}

OpenSegments == {i \in 1..Len(rec_files) : rec_files[i].open}

\* C22 as stated: at most one segment is open, it is the newest one, and
\* every frame a segment holds was written at a time before the segment's
\* end time.
C22_Original ==
  /\ Cardinality(OpenSegments) <= 1
  /\ OpenSegments \subseteq {Len(rec_files)}
  /\ \A i \in 1..Len(rec_files) :
       /\ rec_files[i].end_ts = rec_files[i].opened + segment_duration_s(rec_cfg)
       /\ \A k \in 1..Len(rec_files[i].frames) :
            rec_files[i].frames[k].at < rec_files[i].end_ts

\* C22: at most one segment is open and it is the newest one, so a segment
\* is opened only with every earlier one closed; segments are opened in
\* time order; every frame a segment holds was dequeued at a time, as
\* sampled by the worker, before the segment's end time, which is the
\* opening time plus the segment duration.
C22_SegmentsDoNotOverlap ==
  /\ Cardinality(OpenSegments) <= 1
  /\ OpenSegments \subseteq {Len(rec_files)}
  /\ rec_writer # None => rec_writer[1] \in OpenSegments
  /\ \A i \in 1..Len(rec_files) :
       /\ rec_files[i].end_ts = rec_files[i].opened + segment_duration_s(rec_cfg)
       /\ i > 1 => rec_files[i - 1].opened <= rec_files[i].opened
       /\ \A k \in 1..Len(rec_files[i].frames) :
            rec_files[i].frames[k].now < rec_files[i].end_ts

\* A segment was rotated out with a frame in it, and the frame dequeued
\* after its end time is in the next segment, which is open.
C22_Witness ==
  /\ Len(rec_files) = 2
  /\ ~rec_files[1].open /\ rec_files[2].open
  /\ rec_files[1].frames # <<>> /\ rec_files[2].frames # <<>>
  /\ rec_files[2].frames[1].now >= rec_files[1].end_ts
  /\ rec_writer = Some(2)

\* The step is a rotation: the worker, polling the queue or with a dequeued
\* frame in hand, closes the segment it was writing.
Rotates ==
  /\ rec_thread = "alive"
  /\ rec_wpc \in {"get", "frame"}
  /\ rec_main' = rec_main
  /\ rec_writer # None
  /\ ~rec_files'[rec_writer[1]].open

\* The step is the worker dealing with the frame it dequeued, up to the
\* write.
HandlesFrame == rec_thread = "alive" /\ rec_wpc = "frame" /\ rec_wpc' # "frame"

OpenFails == HandlesFrame /\ rec_now >= rec_gap_until_ts' /\ rec_writer' = None

\* C24: a failed open leaves the worker alive at its loop condition with no
\* segment open, no writer, the frame gone and no frame added to any
\* segment; a frame dequeued outside a gap with no writer either fails in
\* the same way or opens a new segment and is kept for the write; a write
\* that keeps its writer adds the frame to the segment; the worker thread
\* ends only at its loop condition with the stop signal set.
C24_OpenFailureRetries ==
  [][ /\ OpenFails =>
            /\ rec_thread' = "alive" /\ rec_wpc' = "check"
            /\ rec_frame' = None
            /\ OpenSegments' = {}
            /\ Len(rec_files') = Len(rec_files)
            /\ \A i \in 1..Len(rec_files) : rec_files'[i].frames = rec_files[i].frames
      /\ HandlesFrame /\ rec_writer = None /\ rec_now >= rec_gap_until_ts =>
            \/ OpenFails
            \/ /\ Len(rec_files') = Len(rec_files) + 1
               /\ rec_writer' = Some(Len(rec_files'))
               /\ rec_files'[Len(rec_files')].open
               /\ rec_wpc' = "write"
               /\ rec_frame' # None /\ rec_frame'[1].id = rec_frame[1].id
      /\ rec_wpc = "write" /\ rec_wpc' # "write" /\ rec_writer # None /\ rec_writer' = rec_writer =>
            \E f \in {rec_files'[rec_writer[1]].frames} :
               /\ Len(f) = Len(rec_files[rec_writer[1]].frames) + 1
               /\ f[Len(f)].id = rec_frame[1].id
      /\ rec_thread = "alive" /\ rec_thread' # "alive" => rec_stop /\ rec_wpc = "check"
    ]_vars

\* An open failed on the first frame: the frame size was taken from it, as
\* the resolution of the second frame is another one, and it is in no
\* segment.  The worker is alive, stop has not been asked for, and the
\* second frame is in a newly opened segment.
C24_Witness ==
  /\ rec_cfg.frame_size = None
  /\ rec_thread = "alive" /\ ~rec_stop
  /\ rec_pushed = 2 /\ rec_dropped = <<>> /\ rec_q = <<>>
  /\ Len(rec_files) = 1
  /\ rec_files[1].open
  /\ Len(rec_files[1].frames) = 1
  /\ rec_files[1].frames[1].id = 2
  /\ rec_files[1].frames[1].shape # rec_files[1].size

\* C25 as stated: a tick whose frame went through gate_fsm.update goes on to
\* pipe_fsm.update and the persistence of the events, and the loop then
\* proceeds to the next tick: run does not end on such a tick with an error.
C25_Original == app_reads > 0 /\ app_gates # <<>> => app_pc \in {"loop", "stopped"}

\* C26 as stated: _build_gate_fsm gives a GateFSM for each supported value
\* of the gate-source setting and the loop runs on: the call does not raise
\* and run does not end on the first tick after it.
C26_Original ==
  /\ app_pc = "raised" => app_error # Some("TypeError")
  /\ app_cfg.gate_source \in {"geometry", "plc", "vision"} /\ app_reads > 0 /\ app_gates # <<>>
       => app_pc \in {"loop", "stopped"}

\* C27: the two values _iou gives for a pair of boxes taken in either order
\* are the same quotient.
C27_IouSymmetric ==
  iou_ab # None /\ iou_ba # None =>
    /\ iou_ab[1].num * iou_ba[1].den = iou_ba[1].num * iou_ab[1].den
    /\ iou_ab = iou_ba

\* Two overlapping boxes of different areas: both orders have been computed
\* and the value is strictly between 0 and 1.
C27_Witness ==
  /\ iou_ab # None /\ iou_ba # None
  /\ bbox_area(iou_a) < bbox_area(iou_b)
  /\ iou_ab[1].num > 0
  /\ iou_ab[1].num < iou_ab[1].den

\* In a step: the entry timestamp of tracker id x's pipe is latched on this
\* tick.
LatchesEntry(x) ==
  /\ x \in Keys(pipes')
  /\ IsSet(Get(pipes', x).t_loadcell_enter)
  /\ SamePipe(x) => ~IsSet(Get(pipes, x).t_loadcell_enter)

\* C28: for a caster pipe without an entry timestamp, a tick that observes
\* it outside the load-cell ROI leaves loadcell_hits at 0, and loadcell_hits
\* is never more than the number of consecutive observed frames, up to this
\* tick, with the centroid in the ROI; the entry timestamp is latched only
\* on a tick that observes the pipe, starts with the load-cell armed and
\* completes at least loadcell_enter_confirm_frames such frames, and it is
\* that tick's timestamp.
C28_EntryNeedsConsecutiveFrames ==
  [][ \A x \in tids :
        /\ ObservedNow(x) =>
             LET p == Get(pipes', x)
                 h == track'[x] IN
             (p.origin = Some("caster") /\ ~IsSet(p.t_loadcell_enter)) =>
               /\ h.lc_run = 0 => p.loadcell_hits = 0
               /\ h.lc_run < loadcell_enter_confirm_frames => p.loadcell_hits <= h.lc_run
        /\ LatchesEntry(x) =>
             /\ ObservedNow(x)
             /\ loadcell_armed
             /\ track'[x].lc_run >= loadcell_enter_confirm_frames
             /\ Get(pipes', x).loadcell_hits >= loadcell_enter_confirm_frames
             /\ Get(pipes', x).t_loadcell_enter = Some(ts')
    ]_vars

\* With a threshold of two frames: a pipe confirmed "caster" at least two
\* ticks ago and not yet entered was in the load-cell ROI on the tick before
\* the last one (the empty streak restarted there) and was observed outside
\* it on the last tick: its loadcell_hits is back at 0 with the load-cell
\* armed.
C28_Witness ==
  /\ tids = {1}
  /\ cfg.loadcell_enter_confirm_frames >= 2
  /\ loadcell_armed
  /\ loadcell_empty_streak = 1
  /\ \E p \in Tracked :
       /\ p.origin = Some("caster")
       /\ IsSet(p.t_origin) /\ p.t_origin[1] <= ts - 2
       /\ ~IsSet(p.t_loadcell_enter)
       /\ p.last_seen_frame = frame_idx - 1
       /\ track[p.tracker_id].lc_run = 0
       /\ p.loadcell_hits = 0

\* In a step: the pipe of tracker id x is on the load-cell as the tick
\* starts: it has an entry timestamp and no exit timestamp.
OnLoadcell(x) ==
  /\ x \in Keys(pipes)
  /\ IsSet(Get(pipes, x).t_loadcell_enter)
  /\ ~IsSet(Get(pipes, x).t_loadcell_exit)

\* C29: for a pipe on the load-cell, a tick that observes it inside the
\* load-cell ROI sets loadcell_exit_misses to 0 and a tick that observes it
\* outside adds 1, so the counter is the number of consecutive observed
\* outside frames; the tick on which it reaches
\* loadcell_exit_confirm_frames, and no other tick that observes the pipe,
\* emits one PipeExitedLoadcellEvent for it, stamped with the tick's
\* timestamp, sets state to "parked" and t_loadcell_exit to that timestamp;
\* a tick that does not see the pipe and does not reclaim it leaves counter,
\* state and timestamps alone and emits no exit.
C29_ExitByObservation ==
  [][ \A x \in tids :
        (OnLoadcell(x) /\ SamePipe(x)) =>
          LET p == Get(pipes, x)
              q == Get(pipes', x)
              exits == EventsOf(events', "PipeExitedLoadcellEvent", p.pipe_uid)
          IN
          IF ~ObservedNow(x)
            THEN /\ frame_idx' # frame_idx => exits = {}
                 /\ q.loadcell_exit_misses = p.loadcell_exit_misses
                 /\ q.state = p.state /\ q.t_loadcell_exit = p.t_loadcell_exit
          ELSE IF track'[x].lc_run > 0
            THEN /\ q.loadcell_exit_misses = 0
                 /\ exits = {}
                 /\ ~IsSet(q.t_loadcell_exit) /\ q.state = "on_loadcell"
          ELSE /\ q.loadcell_exit_misses = p.loadcell_exit_misses + 1
               /\ p.loadcell_exit_misses < loadcell_exit_confirm_frames
               /\ IF q.loadcell_exit_misses = loadcell_exit_confirm_frames
                    THEN /\ Cardinality(exits) = 1
                         /\ \A k \in exits : events'[k].t_exit = ts' /\ events'[k].tracker_id = x
                         /\ q.state = "parked"
                         /\ q.t_loadcell_exit = Some(ts')
                    ELSE /\ exits = {}
                         /\ ~IsSet(q.t_loadcell_exit) /\ q.state = "on_loadcell"
    ]_vars

\* With a threshold of two frames: the last tick observed the pipe outside
\* the load-cell ROI for the second time in a row, its exit event is in that
\* tick's events, and the record is parked with that tick's timestamp.
C29_Witness ==
  \E p \in Tracked :
    /\ cfg.loadcell_exit_confirm_frames >= 2
    /\ p.last_seen_frame = frame_idx - 1
    /\ track[p.tracker_id].lc_run = 0
    /\ p.loadcell_exit_misses = loadcell_exit_confirm_frames
    /\ p.state = "parked"
    /\ p.t_loadcell_exit = Some(ts)
    /\ IsSet(p.t_loadcell_enter)
    /\ \E k \in EventsOf(events, "PipeExitedLoadcellEvent", p.pipe_uid) : events[k].t_exit = ts

\* C30 as stated: while the origin of a pipe is unset, a tick that observes
\* it without counting the frame as one inside the caster-origin ROI leaves
\* origin_hits at 0; and with a threshold of two frames or more, the origin
\* is not set to "caster" on a tick whose previous observation of the pipe
\* was inside the load-cell ROI.
C30_Original ==
  [][ \A x \in tids :
        (SamePipe(x) /\ ObservedNow(x) /\ ~IsSet(Get(pipes, x).origin)) =>
          LET p == Get(pipes, x)
              q == Get(pipes', x) IN
          /\ (~IsSet(q.origin) /\ q.origin_hits = p.origin_hits) => q.origin_hits = 0
          /\ (q.origin = Some("caster") /\ origin_confirm_frames >= 2) => track[x].lc_run = 0
    ]_vars

\* C31 as stated: whether or not a pulse call has failed, no tracked pipe
\* has its entry timestamp latched and state "on_loadcell" while it is not
\* counted (and so has had no PipeEnteredLoadcellEvent).
C31_Original ==
  \A p \in Tracked :
    ~(IsSet(p.t_loadcell_enter) /\ p.state = "on_loadcell" /\ ~p.counted)

-----------------------------------------------------------------------------
\* C32 as stated: the detections of a frame that carry no track id still
\* reach the gate geometry source, so after the frame each gate's position is
\* the one GeometryGateSource.get_position derives from everything the
\* tracker returned for that frame, tracked or not: "unknown" when an
\* untracked human overlaps the chosen gate box at or above the occlusion
\* threshold, "open" or "closed" when an untracked gate box stands free.
C32_Original ==
  app_raw # None =>
    \A g \in {"gate1", "gate2"} :
      app_gates[g].position =
        GeometryGateSource_get_position(AppGateCfg(app_cfg), g, app_raw[1])

-----------------------------------------------------------------------------
\* C33: the gate FSM pulses the PLC only at the emission edge.  On every
\* tick and for every gate, a GateOpenedEvent is emitted exactly when the
\* source answered "open" and the stable counter stands at stable_frames,
\* whatever the tag and the signalling switch; the gate's tag is pulsed once
\* on that tick when signalling is enabled and the tag is not empty, and is
\* not pulsed otherwise; the tick makes no other pulse.
C33_PulseOnlyAtEmission ==
  (gate_cfg # None /\ gate_tick > 0) =>
    LET edge(g) == gate_pos[g] = "open" /\ gates[g].stable = gate_cfg.stable_frames
        signals(g) == gate_cfg.plc_signal_on_open /\ gate_cfg.gate_tags[g] # ""
        due == {g \in GateSet : edge(g) /\ signals(g)}
    IN /\ \A g \in GateSet :
            /\ Cardinality(GateEventsOf(gate_events, g)) = IF edge(g) THEN 1 ELSE 0
            /\ Cardinality(GatePulsesOf(gate_cfg, gate_pulsed, g)) = IF g \in due THEN 1 ELSE 0
       /\ Len(gate_pulsed) = Cardinality(due)

\* Both gates reach the threshold on the same tick: two events, and the one
\* pulse of gate1's tag, gate2 having no tag.
C33_Witness ==
  /\ gate_cfg # None
  /\ gate_cfg.plc_signal_on_open
  /\ gate_cfg.gate_tags["gate2"] = ""
  /\ Len(gate_events) = 2
  /\ gate_pulsed = <<gate_cfg.gate_tags["gate1"]>>

-----------------------------------------------------------------------------
\* C34 as stated: with no fixed frame size configured, every segment has the
\* resolution of the first frame written to it; with a fixed size configured
\* every segment has that size; and every frame written to a segment has the
\* segment's resolution.
C34_Original ==
  rec_cfg # None =>
    \A i \in 1..Len(rec_files) :
      LET seg == rec_files[i] IN
      /\ rec_cfg.frame_size # None => seg.size = rec_cfg.frame_size[1]
      /\ (rec_cfg.frame_size = None /\ seg.frames # <<>>) => seg.size = seg.frames[1].shape
      /\ \A k \in 1..Len(seg.frames) : seg.frames[k].size = seg.size

-----------------------------------------------------------------------------
\* C35 as stated: once stop() has returned, no segment writer is open, and no
\* later step opens a segment or writes a frame, whatever the worker was
\* doing when the grace period of join ended.
C35_Original ==
  [][ rec_main' = "stopped" =>
        /\ rec_writer' = None
        /\ \A i \in 1..Len(rec_files') : ~rec_files'[i].open
        /\ rec_main = "stopped" => rec_files' = rec_files
    ]_vars

-----------------------------------------------------------------------------
\* C36: over a whole run, update() emits for each pipe_uid at most one
\* PipeEnteredLoadcellEvent and at most one PipeExitedLoadcellEvent; the
\* exit event, observed or synthesized at reclamation, comes on a later tick
\* than the enter event of the same pipe; and no tick changes an entry or
\* exit timestamp that is set, in the record the FSM keeps or in the one it
\* returns.
C36_OneEnterOneExit ==
  [][ /\ \A i, j \in 1..Len(event_log') :
           (event_log'[i].kind = event_log'[j].kind
              /\ event_log'[i].pipe_uid = event_log'[j].pipe_uid) => i = j
      /\ \A j \in 1..Len(event_log') :
           event_log'[j].kind = "PipeExitedLoadcellEvent" =>
             \E i \in 1..(j - 1) :
               /\ event_log'[i].kind = "PipeEnteredLoadcellEvent"
               /\ event_log'[i].pipe_uid = event_log'[j].pipe_uid
               /\ event_log'[i].t_enter < event_log'[j].t_exit
      /\ \A p \in Tracked : \A q \in Range(pipes') \cup Range(updated') :
           q.pipe_uid = p.pipe_uid =>
             /\ IsSet(p.t_loadcell_enter) => q.t_loadcell_enter = p.t_loadcell_enter
             /\ IsSet(p.t_loadcell_exit) => q.t_loadcell_exit = p.t_loadcell_exit
    ]_vars

\* A pipe that entered and left the load-cell, with both events emitted, is
\* seen inside the load-cell ROI again while the load-cell is armed.
C36_Witness ==
  \E p \in Tracked :
    /\ IsSet(p.t_loadcell_exit)
    /\ p.t_loadcell_enter[1] < p.t_loadcell_exit[1]
    /\ track[p.tracker_id].lc_run >= 1
    /\ loadcell_armed
    /\ EventsOf(event_log, "PipeEnteredLoadcellEvent", p.pipe_uid) # {}
    /\ EventsOf(event_log, "PipeExitedLoadcellEvent", p.pipe_uid) # {}

-----------------------------------------------------------------------------
\* C37: while every pulse returns, in every record the FSM keeps or returns
\* counted is true exactly when the entry timestamp is set, the state is
\* "moving" exactly when the entry timestamp is unset, "on_loadcell" exactly
\* when the entry timestamp is set and the exit timestamp unset, and
\* "parked" exactly when the exit timestamp is set; and the number of
\* PipeEnteredLoadcellEvents emitted so far is the number of trigger pulses.
C37_StateMatchesTimestamps ==
  /\ \A p \in Tracked \cup Returned :
       /\ p.counted <=> IsSet(p.t_loadcell_enter)
       /\ p.state = "moving" <=> ~IsSet(p.t_loadcell_enter)
       /\ p.state = "on_loadcell" <=> (IsSet(p.t_loadcell_enter) /\ ~IsSet(p.t_loadcell_exit))
       /\ p.state = "parked" <=> IsSet(p.t_loadcell_exit)
  /\ Cardinality({i \in 1..Len(event_log) : event_log[i].kind = "PipeEnteredLoadcellEvent"})
       = Len(pulsed)

\* The last tick returned a pipe on the load-cell, a parked one that it
\* reclaimed, and the FSM keeps a moving one; two pulses were made.
C37_Witness ==
  /\ \E p \in Returned : p.state = "on_loadcell" /\ p.counted
  /\ \E p \in Returned \ Tracked : p.state = "parked" /\ p.pipe_uid \in retired
  /\ Len(pulsed) = 2

-----------------------------------------------------------------------------
\* C38: a tick makes at most one trigger pulse, and makes it only with the
\* load-cell armed; the pulse disarms the load-cell, so a second caster pipe
\* that completes its entry confirmation on the same tick gets none; and
\* after a pulse no tick makes another, for any pipe, before
\* rearm_empty_frames consecutive ticks have passed without a tracked pipe
\* centroid in the load-cell ROI.
C38_OnePulsePerArming ==
  [][ /\ Len(pulsed') <= Len(pulsed) + 1
      /\ Len(pulsed') > Len(pulsed) =>
           /\ loadcell_armed
           /\ ~loadcell_armed'
           /\ Len(pulsed) > 0 => calm.best >= rearm_empty_frames
      /\ (~loadcell_armed /\ loadcell_armed') => calm'.best >= rearm_empty_frames
    ]_vars

\* Two caster pipes complete their entry confirmation on the same tick: the
\* first in the list is pulsed and counted, the second is not, and the
\* load-cell is disarmed.
C38_Witness ==
  /\ Len(pulsed) = 1
  /\ ~loadcell_armed
  /\ \E p, q \in Tracked :
       /\ p.pipe_uid = pulsed[1] /\ p.counted /\ p.t_loadcell_enter = Some(ts)
       /\ q.origin = Some("caster") /\ ~q.counted /\ ~IsSet(q.t_loadcell_enter)
       /\ q.last_seen_frame = p.last_seen_frame
       /\ q.loadcell_hits >= loadcell_enter_confirm_frames
       /\ track[q.tracker_id].lc_run >= loadcell_enter_confirm_frames

-----------------------------------------------------------------------------
\* C39: a GateFSM emits a second GateOpenedEvent for a gate only after the
\* source has answered "closed" for it on a tick since the first; and an
\* event is emitted exactly on the tick whose "open" answer is the
\* stable_frames-th since the last "closed" answer, the "unknown" answers in
\* between neither counting nor starting the count again.
C39_ClosedBetweenEvents ==
  [][ \A g \in GateSet :
        LET emits == GateEventsOf(gate_events', g) # {} IN
        /\ (emits /\ gate_hist[g].events >= 1) => gate_hist'[g].closed
        /\ emits <=> (gate_pos'[g] = "open"
                        /\ gate_hist'[g].opens = gate_cfg.stable_frames)
    ]_vars

\* The last tick emitted the second event of a gate, and since the first the
\* source has answered "closed" and "unknown" for it.
C39_Witness ==
  \E g \in GateSet :
    /\ gate_hist[g].events = 2
    /\ gate_hist[g].fired
    /\ gate_hist[g].closed
    /\ gate_hist[g].unknown
    /\ GateEventsOf(gate_events, g) # {}

-----------------------------------------------------------------------------
\* C40 as stated: every segment the recorder opens during a run has a path
\* different from the path of every segment opened before it, also when it
\* is opened for the frame that follows a failed write, or after a rotation
\* without gap.
C40_Original ==
  \A i, j \in 1..Len(rec_files) : rec_files[i].path = rec_files[j].path => i = j

============================================================================
